---- MODULE Spec2Model ----
(***************************************************************************)
(* A model of the WASI preview 1 provider for Unix systems                 *)
(* (wasiunix.Provider): the guest descriptor table, the pre-open set, the  *)
(* per-descriptor rights, and the provider operations that consult them.   *)
(*                                                                         *)
(* A Rights value (a uint64 bit set) is the set of its bit positions, so   *)
(* that  a & b  is  a \cap b,  a &^ b  is  a \ b  and  a | b  is  a \cup b.*)
(* A string is the sequence of its characters.  An *fdinfo is an object    *)
(* with an identity of its own: two guest slots that hold the same pointer *)
(* hold the same identity, and two objects may hold the same host          *)
(* descriptor number, because the host issues a number again once it has   *)
(* been closed.  A 64-bit number is written [hi, lo] for hi * 2^63 + lo.   *)
(***************************************************************************)
EXTENDS Integers, Sequences, FiniteSets, TLC

VARIABLES
    fds,        \* Provider.fds: guest slot -> *fdinfo (the identity of the object)
    preopens,   \* Provider.preopens: the set of guest slots flagged pre-open
    info,       \* the fdinfo objects: identity -> [fd, path, stat, dirEntries]
    closed,     \* identity -> whether the provider has called unix.Close on its fd
    openfds,    \* host side: the descriptor numbers that are open in the process
    limit,      \* host side: how many descriptors the process may hold open
    last        \* the call in progress: its inputs, its result, its host syscalls

vars == <<fds, preopens, info, closed, openfds, limit, last>>

(***************************************************************************)
(* Bounds of the model.                                                    *)
(***************************************************************************)
\* The largest number of descriptors the host lets the process hold open,
\* and the largest number of slots the callers let the table hold.
MaxFD == 2
\* The longest path the host resolves.
MaxPath == 4

\* The guest descriptor numbers the callers pass.  The callers open nothing
\* more once all of them are live (TableHasRoom), so every live slot is one
\* of them.
Slots == 0 .. (limit - 1)
\* Host descriptor numbers: as many as the host limit allows.
HostFDs == 1 .. limit

(***************************************************************************)
(* Rights (wasi.Rights).                                                   *)
(***************************************************************************)
FDDataSyncRight == {0}
FDReadRight == {1}
FDSeekRight == {2}
FDStatSetFlagsRight == {3}
FDSyncRight == {4}
FDTellRight == {5}
FDWriteRight == {6}
FDAdviseRight == {7}
FDAllocateRight == {8}
PathCreateDirectoryRight == {9}
PathCreateFileRight == {10}
PathLinkSourceRight == {11}
PathLinkTargetRight == {12}
PathOpenRight == {13}
FDReadDirRight == {14}
PathReadLinkRight == {15}
PathRenameSourceRight == {16}
PathRenameTargetRight == {17}
PathFileStatGetRight == {18}
PathFileStatSetSizeRight == {19}
PathFileStatSetTimesRight == {20}
FDFileStatGetRight == {21}
FDFileStatSetSizeRight == {22}
FDFileStatSetTimesRight == {23}
PathSymlinkRight == {24}
PathRemoveDirectoryRight == {25}
PathUnlinkFileRight == {26}
PollFDReadWriteRight == {27}
SockShutdownRight == {28}
SockAcceptRight == {29}

\* AllRights Rights = (1 << 30) - 1
AllRights == 0 .. 29
ReadRights == FDReadRight \cup FDReadDirRight
WriteRights ==
    FDWriteRight \cup FDAllocateRight \cup PathFileStatSetSizeRight \cup FDDataSyncRight
NoRights == {}

\* A mutant of Has: any flag instead of all flags.
HasSome(flags, f) == (flags \cap f) # {}

\* func (flags Rights) Has(f Rights) bool { return (flags & f) == f }
Has(flags, f) == (flags \cap f) = f

\* func (flags Rights) HasAny(f Rights) bool { return (flags & f) != 0 }
HasAny(flags, f) == (flags \cap f) # {}

(***************************************************************************)
(* Strings and filepath.Clean / filepath.Join (Unix).                      *)
(***************************************************************************)
HasPrefix(s, p) == Len(s) >= Len(p) /\ SubSeq(s, 1, Len(p)) = p

\* The end (0-based, exclusive) of the path element that starts at r.
RECURSIVE ElementEnd(_, _)
ElementEnd(path, r) ==
    IF r < Len(path) /\ path[r + 1] # "/" THEN ElementEnd(path, r + 1) ELSE r

\* out.w--; for out.w > dotdot && out.index(out.w) != '/' { out.w-- }
RECURSIVE BacktrackTo(_, _, _)
BacktrackTo(out, w, dotdot) ==
    IF w > dotdot /\ out[w + 1] # "/" THEN BacktrackTo(out, w - 1, dotdot) ELSE w

RECURSIVE CleanLoop(_, _, _, _, _)
CleanLoop(path, r, out, dotdot, rooted) ==
    LET n == Len(path) IN
    IF r >= n THEN out
    ELSE IF path[r + 1] = "/" THEN
        \* empty path element
        CleanLoop(path, r + 1, out, dotdot, rooted)
    ELSE IF path[r + 1] = "." /\ (r + 1 = n \/ path[r + 2] = "/") THEN
        \* . element
        CleanLoop(path, r + 1, out, dotdot, rooted)
    ELSE IF path[r + 1] = "." /\ path[r + 2] = "." /\ (r + 2 = n \/ path[r + 3] = "/") THEN
        \* .. element: remove to last separator
        IF Len(out) > dotdot THEN
            CleanLoop(path, r + 2,
                      SubSeq(out, 1, BacktrackTo(out, Len(out) - 1, dotdot)),
                      dotdot, rooted)
        ELSE IF ~rooted THEN
            LET o == (IF Len(out) > 0 THEN out \o <<"/">> ELSE out) \o <<".", ".">>
            IN CleanLoop(path, r + 2, o, Len(o), rooted)
        ELSE CleanLoop(path, r + 2, out, dotdot, rooted)
    ELSE
        \* real path element: add slash if needed, copy element
        LET e == ElementEnd(path, r)
            o == IF (rooted /\ Len(out) # 1) \/ (~rooted /\ Len(out) # 0)
                 THEN out \o <<"/">> ELSE out
        IN CleanLoop(path, e, o \o SubSeq(path, r + 1, e), dotdot, rooted)

\* filepath.Clean: the shortest path equivalent to path by lexical processing.
Clean(path) ==
    IF path = <<>> THEN <<".">>
    ELSE LET rooted == path[1] = "/"
             out == IF rooted
                    THEN CleanLoop(path, 1, <<"/">>, 1, TRUE)
                    ELSE CleanLoop(path, 0, <<>>, 0, FALSE)
         IN IF out = <<>> THEN <<".">> ELSE out

\* filepath.Join(a, b): the non-empty elements joined by '/', then cleaned.
Join(a, b) ==
    IF a = <<>> /\ b = <<>> THEN <<>>
    ELSE IF a = <<>> THEN Clean(b)
    ELSE IF b = <<>> THEN Clean(a)
    ELSE Clean(a \o <<"/">> \o b)

(***************************************************************************)
(* Errors.  A host call returns "nil" or the name of a host errno;         *)
(* makeErrno maps it to the WASI errno of the same name, and a failure it  *)
(* does not know to EIO.                                                   *)
(***************************************************************************)
ESUCCESS == "ESUCCESS"
EBADF == "EBADF"
ENOTCAPABLE == "ENOTCAPABLE"
EPERM == "EPERM"
EINVAL == "EINVAL"
ENOSYS == "ENOSYS"
ENOTSUP == "ENOTSUP"
ENOTSOCK == "ENOTSOCK"
ENOTDIR == "ENOTDIR"
EIO == "EIO"

MappedErrnos ==
    { "EACCES", "EAGAIN", "EBADF", "EBUSY", "EEXIST", "EFAULT", "EFBIG", "EINTR",
      "EINVAL", "EIO", "EISDIR", "ELOOP", "ENAMETOOLONG", "ENFILE", "ENOENT",
      "ENOMEM", "ENOSPC", "ENOSYS", "ENOTDIR", "ENOTEMPTY", "ENOTSUP", "EPERM",
      "EPIPE", "ERANGE", "EROFS", "ESPIPE", "ETIMEDOUT", "EXDEV" }

makeErrno(err) ==
    IF err = "nil" THEN ESUCCESS
    ELSE IF err \in MappedErrnos THEN err
    ELSE EIO

(***************************************************************************)
(* The descriptor table (descriptor.Table): a map from the live slots.     *)
(***************************************************************************)
\* Lookup(key): the item and whether the slot is live.
TableHas(t, key) == key \in DOMAIN t

\* A mutant of InsertKey: the slot after the highest live one.
InsertKeyAppend(t) ==
    IF DOMAIN t = {} THEN 0
    ELSE (CHOOSE k \in DOMAIN t : \A j \in DOMAIN t : j <= k) + 1

\* Insert(item): the key the item is mapped to, the lowest free slot.
InsertKey(t) ==
    CHOOSE k \in 0 .. Cardinality(DOMAIN t) :
        /\ k \notin DOMAIN t
        /\ \A j \in 0 .. (k - 1) : j \in DOMAIN t

TableInsert(t, item) ==
    [k \in DOMAIN t \cup {InsertKey(t)} |-> IF k = InsertKey(t) THEN item ELSE t[k]]

\* Assign(key, item): the item placed at key; (prev, replaced) is the prior
\* occupant and whether there was one.
TableAssign(t, key, item) ==
    [k \in DOMAIN t \cup {key} |-> IF k = key THEN item ELSE t[k]]

\* Delete(key)
TableDelete(t, key) == [k \in DOMAIN t \ {key} |-> t[k]]

(***************************************************************************)
(* The host.                                                               *)
(***************************************************************************)
\* The objects some live slot refers to.
Refs(t) == {t[k] : k \in DOMAIN t}

Restrict(f, S) == [x \in S \cap DOMAIN f |-> f[x]]

\* The identity of a new object (&fdinfo{...}): one no live slot refers to.
NewObject ==
    CHOOSE o \in 1 .. (Cardinality(DOMAIN info) + 1) :
        /\ o \notin DOMAIN info
        /\ \A j \in 1 .. (o - 1) : j \in DOMAIN info

\* The slots the callers use are not all live.
TableHasRoom == \E k \in Slots : k \notin DOMAIN fds

\* The host has room for one more descriptor.
HostHasRoom == openfds # HostFDs

\* The descriptor number a host open/accept returns: the lowest that is not
\* open, whether or not an object still holds that number.
FreshHostFD == CHOOSE h \in HostFDs \ openfds : \A g \in HostFDs \ openfds : h <= g

\* What a host call on descriptor number h can return: EBADF if h is not open.
HostResults(h) == IF h \notin openfds THEN {"EBADF"} ELSE {"nil", "EIO"}

\* unix.Close(h): the numbers open afterwards.
HostClose(o, h) == o \ {h}

\* The provider has called unix.Close on the descriptor of object f.
MarkClosed(c, f) == [c EXCEPT ![f] = TRUE]

\* How often the provider has closed the descriptor of object f once it
\* closes it again: 2 is "twice or more".
CloseCount(c, f) == IF c[f] THEN 2 ELSE 1

(***************************************************************************)
(* The observation of a call.                                              *)
(***************************************************************************)
NoFD == 0 - 1

\* One host call: its name, the host descriptor it acts on, its flags.
Call(name, h) == [call |-> name, fd |-> h, arg |-> {}]
CallArg(name, h, arg) == [call |-> name, fd |-> h, arg |-> arg]

Obs(op, fd, errno, sys) ==
    [op |-> op, fd |-> fd, fd2 |-> NoFD, path |-> <<>>, path2 |-> <<>>, oflags |-> {},
     rb |-> {}, ri |-> {}, flags |-> {}, errno |-> errno, ret |-> NoFD,
     sys |-> sys, nclose |-> 0, out |-> <<>>, arg |-> <<>>, host |-> <<>>]

\* The objects kept: those some live slot still refers to.
Commit(newfds, newinfo, newclosed) ==
    /\ fds' = newfds
    /\ info' = Restrict(newinfo, Refs(newfds))
    /\ closed' = Restrict(newclosed, Refs(newfds))

Same == UNCHANGED <<fds, preopens, info, closed, openfds>>

\* No call is in progress: the result of the last one has been taken.
Idle == Obs("idle", NoFD, ESUCCESS, <<>>)

(***************************************************************************)
(* Provider: lookups.                                                      *)
(***************************************************************************)
\* &fdinfo{fd: hostfd, path: path, stat: fdstat}
FDInfo(hostfd, path, fileType, flags, rightsBase, rightsInheriting) ==
    [fd |-> hostfd,
     path |-> path,
     stat |-> [FileType |-> fileType, Flags |-> flags,
               RightsBase |-> rightsBase, RightsInheriting |-> rightsInheriting],
     dirEntries |-> <<>>]


isPreopen(fd) == fd \in preopens

\* A mutant of lookupFD: the rights test asks for any of the rights.
lookupFDAny(guestfd, rights) ==
    IF ~TableHas(fds, guestfd) THEN [f |-> NoFD, errno |-> EBADF]
    ELSE IF rights # {} /\ ~HasSome(info[fds[guestfd]].stat.RightsBase, rights)
         THEN [f |-> NoFD, errno |-> ENOTCAPABLE]
    ELSE [f |-> fds[guestfd], errno |-> ESUCCESS]

lookupFD(guestfd, rights) ==
    IF ~TableHas(fds, guestfd) THEN [f |-> NoFD, errno |-> EBADF]
    ELSE IF ~Has(info[fds[guestfd]].stat.RightsBase, rights)
         THEN [f |-> NoFD, errno |-> ENOTCAPABLE]
    ELSE [f |-> fds[guestfd], errno |-> ESUCCESS]

\* A mutant of lookupPreopenFD: the pre-open set is not consulted.
lookupPreopenFDAnyLive(guestfd, rights) ==
    LET r == lookupFD(guestfd, rights) IN
    IF r.errno # ESUCCESS THEN r
    ELSE IF info[r.f].stat.FileType # "Directory"
         THEN [f |-> NoFD, errno |-> ENOTDIR]
    ELSE r

lookupPreopenFD(guestfd, rights) ==
    IF ~isPreopen(guestfd) THEN [f |-> NoFD, errno |-> EBADF]
    ELSE LET r == lookupFD(guestfd, rights) IN
         IF r.errno # ESUCCESS THEN r
         ELSE IF info[r.f].stat.FileType # "Directory"
              THEN [f |-> NoFD, errno |-> ENOTDIR]
         ELSE r

lookupSocketFD(guestfd, rights) ==
    LET r == lookupFD(guestfd, rights) IN
    IF r.errno # ESUCCESS THEN r
    ELSE IF info[r.f].stat.FileType \in {"SocketStream", "SocketDGram"} THEN r
    ELSE [f |-> NoFD, errno |-> ENOTSOCK]

(***************************************************************************)
(* Provider: the descriptor life cycle.                                    *)
(***************************************************************************)
\* The new object and its slot: p.fds.Insert(&fdinfo{...}).
InsertNew(f) ==
    Commit(TableInsert(fds, NewObject),
           [o \in DOMAIN info \cup {NewObject} |-> IF o = NewObject THEN f ELSE info[o]],
           [o \in DOMAIN closed \cup {NewObject} |->
               IF o = NewObject THEN FALSE ELSE closed[o]])

\* A mutant of Preopen: the rights are stored as given, bits outside
\* AllRights included.
PreopenUnmasked(hostfd, path, fileType, flags, rightsBase, rightsInheriting) ==
    LET guestfd == InsertKey(fds)
    IN /\ InsertNew(FDInfo(hostfd, path, fileType, flags, rightsBase, rightsInheriting))
       /\ preopens' = preopens \cup {guestfd}
       /\ last' = [Obs("preopen", NoFD, ESUCCESS, <<>>) EXCEPT
                      !.ret = guestfd, !.path = path,
                      !.rb = rightsBase, !.ri = rightsInheriting]

\* Preopen(hostfd, path, fdstat): the embedder registers a descriptor it holds.
Preopen(hostfd, path, fileType, flags, rightsBase, rightsInheriting) ==
    LET rb == rightsBase \cap AllRights
        ri == rightsInheriting \cap AllRights
        guestfd == InsertKey(fds)
    IN /\ InsertNew(FDInfo(hostfd, path, fileType, flags, rb, ri))
       /\ preopens' = preopens \cup {guestfd}
       /\ last' = [Obs("preopen", NoFD, ESUCCESS, <<>>) EXCEPT
                      !.ret = guestfd, !.path = path,
                      !.rb = rightsBase, !.ri = rightsInheriting]

\* A mutant of FDClose: the slot stays in the pre-open set.
FDCloseKeepsPreopen(fd) ==
    LET r == lookupFD(fd, NoRights) IN
    IF r.errno # ESUCCESS
    THEN Same /\ last' = Obs("fd_close", fd, r.errno, <<>>)
    ELSE \E err \in HostResults(info[r.f].fd) :
        /\ Commit(TableDelete(fds, fd), info, MarkClosed(closed, r.f))
        /\ openfds' = HostClose(openfds, info[r.f].fd)
        /\ UNCHANGED preopens
        /\ last' = [Obs("fd_close", fd, makeErrno(err),
                        <<Call("close", info[r.f].fd)>>) EXCEPT
                       !.nclose = CloseCount(closed, r.f)]

FDClose(fd) ==
    LET r == lookupFD(fd, NoRights) IN
    IF r.errno # ESUCCESS
    THEN Same /\ last' = Obs("fd_close", fd, r.errno, <<>>)
    ELSE \E err \in HostResults(info[r.f].fd) :
        /\ Commit(TableDelete(fds, fd), info, MarkClosed(closed, r.f))
        /\ openfds' = HostClose(openfds, info[r.f].fd)
        /\ preopens' = preopens \ {fd}
        /\ last' = [Obs("fd_close", fd, makeErrno(err),
                        <<Call("close", info[r.f].fd)>>) EXCEPT
                       !.nclose = CloseCount(closed, r.f)]

\* A mutant of FDRenumber: from is looked up before the pre-open test.
FDRenumberLookupFirst(from, to) ==
    LET r == lookupFD(from, NoRights) IN
    IF r.errno # ESUCCESS
    THEN Same /\ last' = [Obs("fd_renumber", from, r.errno, <<>>) EXCEPT !.fd2 = to]
    ELSE IF isPreopen(from) \/ isPreopen(to)
    THEN Same /\ last' = [Obs("fd_renumber", from, ENOTSUP, <<>>) EXCEPT !.fd2 = to]
    ELSE LET replaced == TableHas(fds, to)
             prev == IF replaced THEN fds[to] ELSE NoFD
         IN /\ Commit(TableAssign(fds, to, r.f), info,
                      IF replaced THEN MarkClosed(closed, prev) ELSE closed)
            /\ openfds' = IF replaced THEN HostClose(openfds, info[prev].fd) ELSE openfds
            /\ UNCHANGED preopens
            /\ last' = [Obs("fd_renumber", from, ENOSYS,
                            IF replaced THEN <<Call("close", info[prev].fd)>>
                            ELSE <<>>) EXCEPT
                           !.fd2 = to,
                           !.nclose = IF replaced THEN CloseCount(closed, prev) ELSE 0]

FDRenumber(from, to) ==
    IF isPreopen(from) \/ isPreopen(to)
    THEN Same /\ last' = [Obs("fd_renumber", from, ENOTSUP, <<>>) EXCEPT !.fd2 = to]
    ELSE LET r == lookupFD(from, NoRights) IN
         IF r.errno # ESUCCESS
         THEN Same /\ last' = [Obs("fd_renumber", from, r.errno, <<>>) EXCEPT !.fd2 = to]
         ELSE LET replaced == TableHas(fds, to)
                  prev == IF replaced THEN fds[to] ELSE NoFD
              IN /\ Commit(TableAssign(fds, to, r.f), info,
                           IF replaced THEN MarkClosed(closed, prev) ELSE closed)
                 /\ openfds' = IF replaced THEN HostClose(openfds, info[prev].fd)
                               ELSE openfds
                 /\ UNCHANGED preopens
                 /\ last' = [Obs("fd_renumber", from, ENOSYS,
                                 IF replaced THEN <<Call("close", info[prev].fd)>>
                                 ELSE <<>>) EXCEPT
                                !.fd2 = to,
                                !.nclose = IF replaced THEN CloseCount(closed, prev) ELSE 0]

FDStatGet(fd) ==
    LET r == lookupFD(fd, NoRights) IN
    Same /\ last' = Obs("fd_stat_get", fd, r.errno, <<>>)

\* A mutant of FDStatSetRights: only the base set is tested against the entry.
FDStatSetRightsBaseOnly(fd, rightsBase, rightsInheriting) ==
    LET r == lookupFD(fd, NoRights)
        o == [Obs("fd_stat_set_rights", fd, r.errno, <<>>) EXCEPT
                 !.rb = rightsBase, !.ri = rightsInheriting]
        rb == rightsBase \cap AllRights
        ri == rightsInheriting \cap AllRights
    IN
    IF r.errno # ESUCCESS THEN Same /\ last' = o
    ELSE IF (rb \ info[r.f].stat.RightsBase) # {}
    THEN Same /\ last' = [o EXCEPT !.errno = ENOTCAPABLE]
    ELSE /\ info' = [info EXCEPT
                        ![r.f].stat.RightsBase = @ \cap rb,
                        ![r.f].stat.RightsInheriting = @ \cap ri]
         /\ UNCHANGED <<fds, preopens, closed, openfds>>
         /\ last' = [o EXCEPT !.errno = ESUCCESS]

\* A mutant of FDStatSetRights: the requested sets are stored untested.
FDStatSetRightsAssign(fd, rightsBase, rightsInheriting) ==
    LET r == lookupFD(fd, NoRights)
        o == [Obs("fd_stat_set_rights", fd, r.errno, <<>>) EXCEPT
                 !.rb = rightsBase, !.ri = rightsInheriting]
        rb == rightsBase \cap AllRights
        ri == rightsInheriting \cap AllRights
    IN
    IF r.errno # ESUCCESS THEN Same /\ last' = o
    ELSE /\ info' = [info EXCEPT
                        ![r.f].stat.RightsBase = rb,
                        ![r.f].stat.RightsInheriting = ri]
         /\ UNCHANGED <<fds, preopens, closed, openfds>>
         /\ last' = [o EXCEPT !.errno = ESUCCESS]

FDStatSetRights(fd, rightsBase, rightsInheriting) ==
    LET r == lookupFD(fd, NoRights)
        o == [Obs("fd_stat_set_rights", fd, r.errno, <<>>) EXCEPT
                 !.rb = rightsBase, !.ri = rightsInheriting]
        rb == rightsBase \cap AllRights
        ri == rightsInheriting \cap AllRights
    IN
    IF r.errno # ESUCCESS THEN Same /\ last' = o
    ELSE IF (rb \ info[r.f].stat.RightsBase) # {}
    THEN Same /\ last' = [o EXCEPT !.errno = ENOTCAPABLE]
    ELSE IF (ri \ info[r.f].stat.RightsInheriting) # {}
    THEN Same /\ last' = [o EXCEPT !.errno = ENOTCAPABLE]
    ELSE /\ info' = [info EXCEPT
                        ![r.f].stat.RightsBase = @ \cap rb,
                        ![r.f].stat.RightsInheriting = @ \cap ri]
         /\ UNCHANGED <<fds, preopens, closed, openfds>>
         /\ last' = [o EXCEPT !.errno = ESUCCESS]


(***************************************************************************)
(* Provider: fd_prestat_get and fd_prestat_dir_name.                       *)
(***************************************************************************)
\* The result is PreStat{Type: PreOpenDir, NameLength: len(f.path)}.
FDPreStatGet(fd) ==
    LET f == lookupPreopenFD(fd, NoRights) IN
    /\ Same
    /\ IF f.errno # ESUCCESS THEN last' = Obs("fd_prestat_get", fd, f.errno, <<>>)
       ELSE last' = [Obs("fd_prestat_get", fd, ESUCCESS, <<>>) EXCEPT
                        !.ret = Len(info[f.f].path)]

\* The result is f.path.
FDPreStatDirName(fd) ==
    LET f == lookupPreopenFD(fd, NoRights) IN
    /\ Same
    /\ IF f.errno # ESUCCESS THEN last' = Obs("fd_prestat_dir_name", fd, f.errno, <<>>)
       ELSE last' = [Obs("fd_prestat_dir_name", fd, ESUCCESS, <<>>) EXCEPT
                        !.path = info[f.f].path]

(***************************************************************************)
(* Provider: path_open and sock_accept.                                    *)
(***************************************************************************)
\* The host open flags PathOpen builds (O_RDONLY is 0 and adds no bit).
OpenatFlags(lookupFlags, openFlags, rightsBase, fdFlags) ==
    {"O_CLOEXEC"}
    \cup (IF "OpenDirectory" \in openFlags THEN {"O_DIRECTORY"} ELSE {})
    \cup (IF "OpenCreate" \in openFlags THEN {"O_CREAT"} ELSE {})
    \cup (IF "OpenExclusive" \in openFlags THEN {"O_EXCL"} ELSE {})
    \cup (IF "OpenTruncate" \in openFlags THEN {"O_TRUNC"} ELSE {})
    \cup (IF "Append" \in fdFlags THEN {"O_APPEND"} ELSE {})
    \cup (IF "DSync" \in fdFlags THEN {"O_DSYNC"} ELSE {})
    \cup (IF "Sync" \in fdFlags THEN {"O_SYNC"} ELSE {})
    \cup (IF "NonBlock" \in fdFlags THEN {"O_NONBLOCK"} ELSE {})
    \cup (IF "SymlinkFollow" \notin lookupFlags THEN {"O_NOFOLLOW"} ELSE {})
    \cup (IF "OpenDirectory" \in openFlags THEN {}
          ELSE IF HasAny(rightsBase, ReadRights) /\ HasAny(rightsBase, WriteRights)
               THEN {"O_RDWR"}
          ELSE IF HasAny(rightsBase, ReadRights) THEN {}
          ELSE IF HasAny(rightsBase, WriteRights) THEN {"O_WRONLY"}
          ELSE {})

\* What unix.Openat(f.fd, path) and unix.Accept(f.fd) (with the empty path)
\* can return for object f.
HostOpenResults(f, path) ==
    IF info[f].fd \notin openfds THEN {"EBADF"}
    ELSE IF Len(Join(info[f].path, path)) > MaxPath THEN {"ENAMETOOLONG"}
    ELSE IF ~HostHasRoom THEN {"ENFILE"}
    ELSE {"nil", "ENOENT"}

\* strings.HasPrefix(clean, "/") || strings.HasPrefix(clean, "../")
Escapes(clean) == HasPrefix(clean, <<"/">>) \/ HasPrefix(clean, <<".", ".", "/">>)

\* A mutant of the clipping: the requested rights are cut to those the
\* directory may pass on, and nothing is refused.
ClipRefusedNever(requested, inheriting) == FALSE

\* (rights &^ d.stat.RightsInheriting) != 0
ClipRefused(requested, inheriting) == (requested \ inheriting) # {}

\* A mutant of DirectoryRights: FDSeekRight is removed whatever is opened.
DirectoryRightsAlways(openFlags, rightsBase) == rightsBase \ FDSeekRight

\* A mutant of DirectoryRights: FDSeekRight is never removed.
DirectoryRightsNever(openFlags, rightsBase) == rightsBase

\* if openFlags.Has(wasi.OpenDirectory) { rightsBase &^= wasi.FDSeekRight }
DirectoryRights(openFlags, rightsBase) ==
    IF "OpenDirectory" \in openFlags THEN rightsBase \ FDSeekRight ELSE rightsBase

PathOpen(fd, lookupFlags, path, openFlags, rightsBase, rightsInheriting, fdFlags) ==
    LET d == lookupFD(fd, PathOpenRight)
        o == [Obs("path_open", fd, d.errno, <<>>) EXCEPT
                 !.path = path, !.oflags = openFlags,
                 !.rb = rightsBase, !.ri = rightsInheriting, !.flags = fdFlags]
        clean == Clean(path)
        rb0 == rightsBase \cap AllRights
        ri0 == rightsInheriting \cap AllRights
    IN
    IF d.errno # ESUCCESS THEN Same /\ last' = o
    ELSE IF Escapes(clean) THEN Same /\ last' = [o EXCEPT !.errno = EPERM]
    ELSE IF ClipRefused(rb0, info[d.f].stat.RightsInheriting)
    THEN Same /\ last' = [o EXCEPT !.errno = ENOTCAPABLE]
    ELSE IF ClipRefused(ri0, info[d.f].stat.RightsInheriting)
    THEN Same /\ last' = [o EXCEPT !.errno = ENOTCAPABLE]
    ELSE
    LET rb1 == rb0 \cap info[d.f].stat.RightsInheriting
        ri1 == ri0 \cap info[d.f].stat.RightsInheriting
        rb2 == DirectoryRights(openFlags, rb1)
    IN
    IF "OpenCreate" \in openFlags /\ ~Has(info[d.f].stat.RightsBase, PathCreateFileRight)
    THEN Same /\ last' = [o EXCEPT !.errno = ENOTCAPABLE]
    ELSE IF "OpenTruncate" \in openFlags
            /\ ~Has(info[d.f].stat.RightsBase, PathFileStatSetSizeRight)
    THEN Same /\ last' = [o EXCEPT !.errno = ENOTCAPABLE]
    ELSE
    LET oflags == OpenatFlags(lookupFlags, openFlags, rb2, fdFlags)
        fileType == IF "O_DIRECTORY" \in oflags THEN "Directory" ELSE "RegularFile"
        sys == <<CallArg("openat", info[d.f].fd, oflags)>>
    IN
    \E err \in HostOpenResults(d.f, path) :
        IF err # "nil" THEN Same /\ last' = [o EXCEPT !.errno = makeErrno(err), !.sys = sys]
        ELSE /\ InsertNew(FDInfo(FreshHostFD, Join(info[d.f].path, path), fileType,
                                 fdFlags, rb2, ri1))
             /\ openfds' = openfds \cup {FreshHostFD}
             /\ UNCHANGED preopens
             /\ last' = [o EXCEPT !.errno = ESUCCESS, !.sys = sys, !.ret = InsertKey(fds)]

\* A mutant of SockAccept: the new entry takes the listening socket's
\* rights_base as its own.
SockAcceptBaseRights(fd, flags) ==
    LET socket == lookupSocketFD(fd, SockAcceptRight)
        o == [Obs("sock_accept", fd, socket.errno, <<>>) EXCEPT !.flags = flags]
    IN
    IF socket.errno # ESUCCESS THEN Same /\ last' = o
    ELSE IF (flags \ {"NonBlock"}) # {} THEN Same /\ last' = [o EXCEPT !.errno = EINVAL]
    ELSE
    \E err \in HostOpenResults(socket.f, <<>>) :
        IF err # "nil"
        THEN Same /\ last' = [o EXCEPT !.errno = makeErrno(err),
                                       !.sys = <<Call("accept", info[socket.f].fd)>>]
        ELSE LET connfd == FreshHostFD IN
             \E err2 \in {"nil", "EIO"} :
                IF err2 # "nil"
                THEN Same /\ last' = [o EXCEPT
                        !.errno = makeErrno(err2),
                        !.sys = <<Call("accept", info[socket.f].fd),
                                  Call("setnonblock", connfd), Call("close", connfd)>>,
                        !.nclose = 1]
                ELSE /\ InsertNew(FDInfo(connfd, <<>>, "SocketStream", flags,
                                         info[socket.f].stat.RightsBase,
                                         info[socket.f].stat.RightsInheriting))
                     /\ openfds' = openfds \cup {connfd}
                     /\ UNCHANGED preopens
                     /\ last' = [o EXCEPT
                            !.errno = ESUCCESS, !.ret = InsertKey(fds),
                            !.sys = <<Call("accept", info[socket.f].fd),
                                      Call("setnonblock", connfd)>>]


SockAccept(fd, flags) ==
    LET socket == lookupSocketFD(fd, SockAcceptRight)
        o == [Obs("sock_accept", fd, socket.errno, <<>>) EXCEPT !.flags = flags]
    IN
    IF socket.errno # ESUCCESS THEN Same /\ last' = o
    ELSE IF (flags \ {"NonBlock"}) # {} THEN Same /\ last' = [o EXCEPT !.errno = EINVAL]
    ELSE
    \E err \in HostOpenResults(socket.f, <<>>) :
        IF err # "nil"
        THEN Same /\ last' = [o EXCEPT !.errno = makeErrno(err),
                                       !.sys = <<Call("accept", info[socket.f].fd)>>]
        ELSE LET connfd == FreshHostFD IN
             \E err2 \in {"nil", "EIO"} :
                IF err2 # "nil"
                THEN Same /\ last' = [o EXCEPT
                        !.errno = makeErrno(err2),
                        !.sys = <<Call("accept", info[socket.f].fd),
                                  Call("setnonblock", connfd), Call("close", connfd)>>,
                        !.nclose = 1]
                ELSE /\ InsertNew(FDInfo(connfd, <<>>, "SocketStream", flags,
                                         info[socket.f].stat.RightsInheriting,
                                         info[socket.f].stat.RightsInheriting))
                     /\ openfds' = openfds \cup {connfd}
                     /\ UNCHANGED preopens
                     /\ last' = [o EXCEPT
                            !.errno = ESUCCESS, !.ret = InsertKey(fds),
                            !.sys = <<Call("accept", info[socket.f].fd),
                                      Call("setnonblock", connfd)>>]


(***************************************************************************)
(* Provider: operations that check a right and pass through to the host.   *)
(***************************************************************************)
\* lookupFD(fd, rights), then one host call on the descriptor.
PassThrough(op, fd, rights, call) ==
    LET f == lookupFD(fd, rights) IN
    /\ Same
    /\ IF f.errno # ESUCCESS THEN last' = Obs(op, fd, f.errno, <<>>)
       ELSE \E err \in HostResults(info[f.f].fd) :
                last' = Obs(op, fd, makeErrno(err), <<Call(call, info[f.f].fd)>>)

FDAdvise(fd) == PassThrough("fd_advise", fd, FDAdviseRight, "fadvise")
FDAllocate(fd) == PassThrough("fd_allocate", fd, FDAllocateRight, "fallocate")
FDDataSync(fd) == PassThrough("fd_datasync", fd, FDDataSyncRight, "fdatasync")
FDSync(fd) == PassThrough("fd_sync", fd, FDSyncRight, "fsync")
FDFileStatGet(fd) == PassThrough("fd_filestat_get", fd, FDFileStatGetRight, "fstat")
FDFileStatSetSize(fd) ==
    PassThrough("fd_filestat_set_size", fd, FDFileStatSetSizeRight, "ftruncate")
FDPread(fd) == PassThrough("fd_pread", fd, FDReadRight \cup FDSeekRight, "preadv")
FDPwrite(fd) == PassThrough("fd_pwrite", fd, FDWriteRight \cup FDSeekRight, "pwritev")
FDRead(fd) == PassThrough("fd_read", fd, FDReadRight, "readv")
FDWrite(fd) == PassThrough("fd_write", fd, FDWriteRight, "writev")

\* clock: "unused" when no *Now flag is set, "absent" when the provider has
\* no Monotonic clock, and otherwise what p.Monotonic returns: "nil" or an error.
FDFileStatSetTimes(fd, clock) ==
    LET f == lookupFD(fd, FDFileStatSetTimesRight)
        o == [Obs("fd_filestat_set_times", fd, f.errno, <<>>) EXCEPT !.flags = {clock}]
    IN
    /\ Same
    /\ IF f.errno # ESUCCESS THEN last' = o
       ELSE \E err \in HostResults(info[f.f].fd) :
            IF err # "nil"
            THEN last' = [o EXCEPT !.errno = makeErrno(err),
                                   !.sys = <<Call("fstat", info[f.f].fd)>>]
            ELSE IF clock = "absent"
            THEN last' = [o EXCEPT !.errno = ENOSYS,
                                   !.sys = <<Call("fstat", info[f.f].fd)>>]
            ELSE IF clock \notin {"unused", "nil"}
            THEN last' = [o EXCEPT !.errno = makeErrno(clock),
                                   !.sys = <<Call("fstat", info[f.f].fd)>>]
            ELSE \E err2 \in HostResults(info[f.f].fd) :
                    last' = [o EXCEPT !.errno = makeErrno(err2),
                                      !.sys = <<Call("fstat", info[f.f].fd),
                                                Call("futimens", info[f.f].fd)>>]

\* whence: 0 SeekStart, 1 SeekCurrent, 2 SeekEnd; anything else is invalid.
fdseek(op, fd, rights, delta, whence) ==
    LET f == lookupFD(fd, rights)
        o == [Obs(op, fd, f.errno, <<>>) EXCEPT !.flags = {<<delta, whence>>}]
    IN
    /\ Same
    /\ IF f.errno # ESUCCESS THEN last' = o
       ELSE IF whence \notin {0, 1, 2} THEN last' = [o EXCEPT !.errno = EINVAL]
       ELSE \E err \in HostResults(info[f.f].fd) :
                last' = [o EXCEPT !.errno = makeErrno(err),
                                  !.sys = <<CallArg("lseek", info[f.f].fd, {<<delta, whence>>})>>]

FDSeek(fd, delta, whence) == fdseek("fd_seek", fd, FDSeekRight, delta, whence)
FDTell(fd) == fdseek("fd_tell", fd, FDTellRight, 0, 1)

(***************************************************************************)
(* Provider: directory-relative path operations.                           *)
(***************************************************************************)
PathThrough(op, fd, rights, path, call) ==
    LET d == lookupFD(fd, rights)
        o == [Obs(op, fd, d.errno, <<>>) EXCEPT !.path = path]
    IN
    /\ Same
    /\ IF d.errno # ESUCCESS THEN last' = o
       ELSE \E err \in HostResults(info[d.f].fd) :
                last' = [o EXCEPT !.errno = makeErrno(err),
                                  !.sys = <<CallArg(call, info[d.f].fd, {path})>>]

PathThrough2(op, fd, rights1, path, newFD, rights2, newPath, call) ==
    LET d1 == lookupFD(fd, rights1)
        d2 == lookupFD(newFD, rights2)
        o == [Obs(op, fd, d1.errno, <<>>) EXCEPT
                 !.path = path, !.path2 = newPath, !.fd2 = newFD]
    IN
    /\ Same
    /\ IF d1.errno # ESUCCESS THEN last' = o
       ELSE IF d2.errno # ESUCCESS THEN last' = [o EXCEPT !.errno = d2.errno]
       ELSE \E err \in HostResults(info[d1.f].fd) \cup HostResults(info[d2.f].fd) :
                last' = [o EXCEPT !.errno = makeErrno(err),
                                  !.sys = <<CallArg(call, info[d1.f].fd, {path, newPath})>>]

PathCreateDirectory(fd, path) ==
    PathThrough("path_create_directory", fd, PathCreateDirectoryRight, path, "mkdirat")
PathFileStatGet(fd, path) ==
    PathThrough("path_filestat_get", fd, PathFileStatGetRight, path, "fstatat")
\* keepOne: one of the two times is kept, so the current times are read first.
PathFileStatSetTimes(fd, path, keepOne) ==
    LET d == lookupFD(fd, PathFileStatSetTimesRight)
        o == [Obs("path_filestat_set_times", fd, d.errno, <<>>) EXCEPT !.path = path]
        stat == IF keepOne THEN <<CallArg("fstatat", info[d.f].fd, {path})>> ELSE <<>>
    IN
    /\ Same
    /\ IF d.errno # ESUCCESS THEN last' = o
       ELSE \E err \in (IF keepOne THEN HostResults(info[d.f].fd) ELSE {"nil"}) :
            IF err # "nil" THEN last' = [o EXCEPT !.errno = makeErrno(err), !.sys = stat]
            ELSE \E err2 \in HostResults(info[d.f].fd) :
                    last' = [o EXCEPT
                        !.errno = makeErrno(err2),
                        !.sys = stat \o <<CallArg("utimensat", info[d.f].fd, {path})>>]
PathLink(fd, oldPath, newFD, newPath) ==
    PathThrough2("path_link", fd, PathLinkSourceRight, oldPath,
                 newFD, PathLinkTargetRight, newPath, "linkat")
\* full: the link fills the buffer exactly (n == len(buffer)).
PathReadLink(fd, path, full) ==
    LET d == lookupFD(fd, PathReadLinkRight)
        o == [Obs("path_readlink", fd, d.errno, <<>>) EXCEPT !.path = path]
    IN
    /\ Same
    /\ IF d.errno # ESUCCESS THEN last' = o
       ELSE \E err \in HostResults(info[d.f].fd) :
                last' = [o EXCEPT
                    !.errno = IF err # "nil" THEN makeErrno(err)
                              ELSE IF full THEN "ERANGE" ELSE ESUCCESS,
                    !.sys = <<CallArg("readlinkat", info[d.f].fd, {path})>>]
PathRemoveDirectory(fd, path) ==
    PathThrough("path_remove_directory", fd, PathRemoveDirectoryRight, path, "unlinkat")
PathRename(fd, oldPath, newFD, newPath) ==
    PathThrough2("path_rename", fd, PathRenameSourceRight, oldPath,
                 newFD, PathRenameTargetRight, newPath, "renameat")
PathSymlink(oldPath, fd, newPath) ==
    LET d == lookupFD(fd, PathSymlinkRight)
        o == [Obs("path_symlink", fd, d.errno, <<>>) EXCEPT
                 !.path = newPath, !.path2 = oldPath]
    IN
    /\ Same
    /\ IF d.errno # ESUCCESS THEN last' = o
       ELSE \E err \in HostResults(info[d.f].fd) :
                last' = [o EXCEPT !.errno = makeErrno(err),
                                  !.sys = <<CallArg("symlinkat", info[d.f].fd, {oldPath, newPath})>>]
PathUnlinkFile(fd, path) ==
    PathThrough("path_unlink_file", fd, PathUnlinkFileRight, path, "unlinkat")

(***************************************************************************)
(* Provider: sockets.                                                      *)
(***************************************************************************)
\* lookupSocketFD, then ENOSYS: not implemented.
SockStub(op, fd, rights) ==
    LET socket == lookupSocketFD(fd, rights) IN
    /\ Same
    /\ last' = Obs(op, fd, IF socket.errno # ESUCCESS THEN socket.errno ELSE ENOSYS, <<>>)

SockRecv(fd) == SockStub("sock_recv", fd, FDReadRight)
SockSend(fd) == SockStub("sock_send", fd, FDWriteRight)

\* A mutant of SockShutdown: one direction bit is enough for SHUT_RDWR.
SockShutdownAnyBit(fd, flags) ==
    LET socket == lookupSocketFD(fd, SockShutdownRight)
        o == [Obs("sock_shutdown", fd, socket.errno, <<>>) EXCEPT !.flags = flags]
    IN
    /\ Same
    /\ IF socket.errno # ESUCCESS THEN last' = o
       ELSE IF HasAny(flags, {"ShutdownRD", "ShutdownWR"})
       THEN \E err \in HostResults(info[socket.f].fd) :
                last' = [o EXCEPT !.errno = makeErrno(err),
                                  !.sys = <<CallArg("shutdown", info[socket.f].fd, {"SHUT_RDWR"})>>]
       ELSE last' = [o EXCEPT !.errno = EINVAL]

SockShutdown(fd, flags) ==
    LET socket == lookupSocketFD(fd, SockShutdownRight)
        o == [Obs("sock_shutdown", fd, socket.errno, <<>>) EXCEPT !.flags = flags]
    IN
    /\ Same
    /\ IF socket.errno # ESUCCESS THEN last' = o
       ELSE IF Has(flags, {"ShutdownRD", "ShutdownWR"})
       THEN \E err \in HostResults(info[socket.f].fd) :
                last' = [o EXCEPT !.errno = makeErrno(err),
                                  !.sys = <<CallArg("shutdown", info[socket.f].fd, {"SHUT_RDWR"})>>]
       ELSE IF Has(flags, {"ShutdownRD"})
       THEN \E err \in HostResults(info[socket.f].fd) :
                last' = [o EXCEPT !.errno = makeErrno(err),
                                  !.sys = <<CallArg("shutdown", info[socket.f].fd, {"SHUT_RD"})>>]
       ELSE IF Has(flags, {"ShutdownWR"})
       THEN \E err \in HostResults(info[socket.f].fd) :
                last' = [o EXCEPT !.errno = makeErrno(err),
                                  !.sys = <<CallArg("shutdown", info[socket.f].fd, {"SHUT_WR"})>>]
       ELSE last' = [o EXCEPT !.errno = EINVAL]


(***************************************************************************)
(* Provider: fd_stat_set_flags.                                            *)
(***************************************************************************)
\* flags ^ f.stat.Flags
Xor(a, b) == (a \ b) \cup (b \ a)

FDStatSetFlags(fd, flags) ==
    LET f == lookupFD(fd, FDStatSetFlagsRight)
        o == [Obs("fd_stat_set_flags", fd, f.errno, <<>>) EXCEPT !.flags = flags]
    IN
    IF f.errno # ESUCCESS THEN Same /\ last' = o
    ELSE
    LET changes == Xor(flags, info[f.f].stat.Flags) IN
    IF changes = {} THEN Same /\ last' = [o EXCEPT !.errno = ESUCCESS]
    ELSE IF Has(changes, {"Sync", "DSync", "RSync"})
    THEN Same /\ last' = [o EXCEPT !.errno = ENOSYS]
    ELSE \E err \in HostResults(info[f.f].fd) :
        IF err # "nil"
        THEN Same /\ last' = [o EXCEPT !.errno = makeErrno(err),
                                       !.sys = <<Call("fcntl_getfl", info[f.f].fd)>>]
        ELSE \E err2 \in HostResults(info[f.f].fd) :
            LET sys == <<Call("fcntl_getfl", info[f.f].fd),
                         CallArg("fcntl_setfl", info[f.f].fd,
                                 flags \cap {"Append", "NonBlock"})>>
            IN IF err2 # "nil"
               THEN Same /\ last' = [o EXCEPT !.errno = makeErrno(err2), !.sys = sys]
               ELSE /\ info' = [info EXCEPT ![f.f].stat.Flags = Xor(@, changes)]
                    /\ UNCHANGED <<fds, preopens, closed, openfds>>
                    /\ last' = [o EXCEPT !.errno = ESUCCESS, !.sys = sys]

(***************************************************************************)
(* Provider: fd_read_dir.                                                  *)
(***************************************************************************)
\* unsafe.Sizeof(wasi.DirEntry{})
SizeOfDirEntry == 24

\* A 64-bit number, signed or unsigned: [hi |-> h, lo |-> l] is h * 2^63 + l,
\* where l has a magnitude below 2^31.  These are the numbers near 0, near
\* 2^63 and near 2^64, and no two of the pairs are the same number.
Num(h, l) == [hi |-> h, lo |-> l]
\* The number n, for n of a magnitude below 2^31.
Small(n) == Num(0, n)
\* a < b
Less(a, b) == a.hi < b.hi \/ (a.hi = b.hi /\ a.lo < b.lo)
\* math.MaxInt: 2^63 - 1
MaxInt == Num(1, 0 - 1)

\* e.Info() fails: the entry is one of a listing (the entries "." and ".."
\* that FDReadDir adds carry their info) and the file is gone.
InfoFails(name, gone) == name \in gone /\ name \notin {<<".">>, <<".", ".">>}

\* A mutant of ReadDirLoop: an entry's Next is its own position.
RECURSIVE ReadDirLoopNextSame(_, _, _, _, _, _)
ReadDirLoopNextSame(entries, pos, n, bufferSizeBytes, buffer, gone) ==
    IF Less(pos, Small(Len(entries))) /\ n < bufferSizeBytes
    THEN LET name == entries[pos.lo + 1] IN
         IF InfoFails(name, gone)
         THEN [buffer |-> buffer, errno |-> makeErrno("ENOENT")]
         ELSE ReadDirLoopNextSame(entries, Small(pos.lo + 1),
                                  n + SizeOfDirEntry + Len(name), bufferSizeBytes,
                                  Append(buffer, [Name |-> name,
                                                  NameLength |-> Len(name),
                                                  Next |-> pos.lo]),
                                  gone)
    ELSE [buffer |-> buffer, errno |-> ESUCCESS]

\* The loop of FDReadDir from position pos with n bytes counted so far: the
\* buffer and the errno it returns.  An entry's Next, pos + 1, is at most
\* the length of the cache and is written as the number it is.
RECURSIVE ReadDirLoop(_, _, _, _, _, _)
ReadDirLoop(entries, pos, n, bufferSizeBytes, buffer, gone) ==
    IF Less(pos, Small(Len(entries))) /\ n < bufferSizeBytes
    THEN LET name == entries[pos.lo + 1] IN
         IF InfoFails(name, gone)
         THEN [buffer |-> buffer, errno |-> makeErrno("ENOENT")]
         ELSE ReadDirLoop(entries, Small(pos.lo + 1),
                          n + SizeOfDirEntry + Len(name), bufferSizeBytes,
                          Append(buffer, [Name |-> name,
                                          NameLength |-> Len(name),
                                          Next |-> pos.lo + 1]),
                          gone)
    ELSE [buffer |-> buffer, errno |-> ESUCCESS]

\* readErr: os.ReadDir(f.path) fails; listing: the sorted names it returns;
\* statDot, statDotDot: whether os.Stat of the directory and of its parent
\* succeed; gone: the names whose file is gone when e.Info() asks for it.
FDReadDir(fd, bufferSizeBytes, cookie, readErr, listing, statDot, statDotDot, gone) ==
    LET f == lookupFD(fd, FDReadDirRight)
        o == [Obs("fd_read_dir", fd, f.errno, <<>>) EXCEPT
                 !.flags = {<<bufferSizeBytes, cookie>>},
                 !.arg = <<listing, statDot, statDotDot, gone>>]
    IN
    IF f.errno # ESUCCESS THEN Same /\ last' = o
    ELSE IF cookie = Small(0) /\ readErr
    THEN Same /\ last' = [o EXCEPT !.errno = makeErrno("ENOENT"),
                                   !.sys = <<CallArg("readdir", NoFD, {info[f.f].path})>>]
    ELSE
    LET entries == IF cookie = Small(0)
                   THEN listing \o (IF statDot THEN << <<".">> >> ELSE <<>>)
                                \o (IF statDotDot THEN << <<".", ".">> >> ELSE <<>>)
                   ELSE info[f.f].dirEntries
        sys == IF cookie = Small(0)
               THEN <<CallArg("readdir", NoFD, {info[f.f].path})>> ELSE <<>>
    IN
    /\ info' = [info EXCEPT ![f.f].dirEntries = entries]
    /\ UNCHANGED <<fds, preopens, closed, openfds>>
    /\ IF Less(MaxInt, cookie) THEN last' = [o EXCEPT !.errno = EINVAL, !.sys = sys]
       ELSE LET r == ReadDirLoop(entries, cookie, 0, bufferSizeBytes, <<>>, gone) IN
            last' = [o EXCEPT !.errno = r.errno, !.sys = sys, !.out = r.buffer]

(***************************************************************************)
(* Provider: poll_one_off.                                                 *)
(***************************************************************************)
\* time.Duration(c.Timeout): the uint64 reinterpreted as an int64, which
\* is the same number below 2^63 and 2^64 less from there on.
Duration(u) == IF Less(u, Num(1, 0)) THEN u ELSE Num(u.hi - 2, u.lo)

\* A mutant of PollScan: an FD subscription whose lookup fails is left out
\* and the loop goes on.
RECURSIVE PollScanSkips(_, _, _, _)
PollScanSkips(subscriptions, i, timeout, pollfds) ==
    IF i > Len(subscriptions)
    THEN [errno |-> ESUCCESS, timeout |-> timeout, pollfds |-> pollfds]
    ELSE LET s == subscriptions[i] IN
         IF s.EventType \in {"FDReadEvent", "FDWriteEvent"}
         THEN LET f == lookupFD(s.FD, PollFDReadWriteRight) IN
              IF f.errno # ESUCCESS
              THEN PollScanSkips(subscriptions, i + 1, timeout, pollfds)
              ELSE PollScanSkips(subscriptions, i + 1, timeout,
                            Append(pollfds,
                                   [Fd |-> info[f.f].fd,
                                    Events |-> IF s.EventType = "FDWriteEvent"
                                               THEN "POLLOUT" ELSE "POLLIN"]))
         ELSE IF s.EventType = "ClockEvent"
         THEN IF s.ID # "Monotonic" \/ s.Abstime
              THEN [errno |-> ENOSYS, timeout |-> timeout, pollfds |-> pollfds]
              ELSE IF Less(timeout, Small(0))
              THEN PollScanSkips(subscriptions, i + 1, Duration(s.Timeout), pollfds)
              ELSE IF ~Less(timeout, Small(0)) /\ Less(Duration(s.Timeout), timeout)
              THEN PollScanSkips(subscriptions, i + 1, Duration(s.Timeout), pollfds)
              ELSE PollScanSkips(subscriptions, i + 1, timeout, pollfds)
         ELSE PollScanSkips(subscriptions, i + 1, timeout, pollfds)

\* The first loop of PollOneOff from subscription i (1-based): the errno it
\* stops with, the timeout and the host descriptors to poll.
RECURSIVE PollScan(_, _, _, _)
PollScan(subscriptions, i, timeout, pollfds) ==
    IF i > Len(subscriptions)
    THEN [errno |-> ESUCCESS, timeout |-> timeout, pollfds |-> pollfds]
    ELSE LET s == subscriptions[i] IN
         IF s.EventType \in {"FDReadEvent", "FDWriteEvent"}
         THEN LET f == lookupFD(s.FD, PollFDReadWriteRight) IN
              IF f.errno # ESUCCESS
              THEN [errno |-> f.errno, timeout |-> timeout, pollfds |-> pollfds]
              ELSE PollScan(subscriptions, i + 1, timeout,
                            Append(pollfds,
                                   [Fd |-> info[f.f].fd,
                                    Events |-> IF s.EventType = "FDWriteEvent"
                                               THEN "POLLOUT" ELSE "POLLIN"]))
         ELSE IF s.EventType = "ClockEvent"
         THEN IF s.ID # "Monotonic" \/ s.Abstime
              THEN [errno |-> ENOSYS, timeout |-> timeout, pollfds |-> pollfds]
              ELSE IF Less(timeout, Small(0))
              THEN PollScan(subscriptions, i + 1, Duration(s.Timeout), pollfds)
              ELSE IF ~Less(timeout, Small(0)) /\ Less(Duration(s.Timeout), timeout)
              THEN PollScan(subscriptions, i + 1, Duration(s.Timeout), pollfds)
              ELSE PollScan(subscriptions, i + 1, timeout, pollfds)
         ELSE PollScan(subscriptions, i + 1, timeout, pollfds)

\* The second loop: the events of the FD subscriptions from i on, given the
\* revents the host poll stored; j counts the FD subscriptions seen (0-based).
RECURSIVE PollEvents(_, _, _, _, _)
PollEvents(subscriptions, i, j, revents, events) ==
    IF i > Len(subscriptions) THEN events
    ELSE LET s == subscriptions[i] IN
         IF s.EventType = "ClockEvent"
         THEN PollEvents(subscriptions, i + 1, j, revents, events)
         ELSE IF revents[j + 1] = {}
         THEN PollEvents(subscriptions, i + 1, j + 1, revents, events)
         ELSE PollEvents(subscriptions, i + 1, j + 1, revents,
                Append(events,
                  [UserData |-> s.UserData,
                   EventType |-> s.EventType,
                   Errno |-> IF "POLLERR" \in revents[j + 1] THEN "ECANCELED" ELSE ESUCCESS,
                   NBytes |-> IF \/ s.EventType = "FDReadEvent" /\ "POLLIN" \in revents[j + 1]
                                 \/ s.EventType = "FDWriteEvent" /\ "POLLOUT" \in revents[j + 1]
                              THEN 1 ELSE 0,
                   Flags |-> IF "POLLHUP" \in revents[j + 1] THEN {"Hangup"} ELSE {}]))

\* int(timeout.Milliseconds()), or -1 without a timeout.  The quotient of
\* a timeout that is not negative is written [hi, lo] for
\* hi * 9223372036854 + lo: 2^63 is 9223372036854 * 1000000 + 775808.
TimeoutMillis(timeout) ==
    IF Less(timeout, Small(0)) THEN Num(0, 0 - 1)
    ELSE Num(timeout.hi, (timeout.hi * 775808 + timeout.lo) \div 1000000)

\* The number of entries of revents that are not empty.
RECURSIVE NonZero(_)
NonZero(revents) ==
    IF revents = <<>> THEN 0
    ELSE (IF Head(revents) # {} THEN 1 ELSE 0) + NonZero(Tail(revents))

\* A mutant of PollOneOff: an empty subscription list is not refused.
PollOneOffNoEmptyTest(subscriptions, events, pollerr, revents) ==
    LET o == [Obs("poll_one_off", NoFD, EINVAL, <<>>) EXCEPT
                 !.flags = {subscriptions}, !.out = events, !.arg = events]
    IN
    /\ Same
    /\ IF FALSE THEN last' = o
       ELSE
       LET scan == PollScan(subscriptions, 1, Small(0 - 1), <<>>) IN
       IF scan.errno # ESUCCESS THEN last' = [o EXCEPT !.errno = scan.errno]
       ELSE IF Len(scan.pollfds) = 0
       THEN IF ~Less(scan.timeout, Small(0))
            THEN last' = [o EXCEPT !.op = "poll_one_off_select",
                                   !.errno = "pending",
                                   !.sys = <<CallArg("sleep", NoFD, {scan.timeout})>>]
            ELSE last' = [o EXCEPT !.errno = ESUCCESS]
       ELSE
       LET sys == <<CallArg("poll", scan.pollfds[1].Fd, {TimeoutMillis(scan.timeout)})>> IN
       IF pollerr # "nil" THEN last' = [o EXCEPT !.errno = makeErrno(pollerr), !.sys = sys]
       ELSE
       /\ Len(revents) = Len(scan.pollfds)
       /\ LET out == PollEvents(subscriptions, 1, 0, revents, events) IN
          IF NonZero(revents) # Len(out)
          THEN last' = [o EXCEPT !.errno = "panic", !.sys = sys, !.out = out,
                                 !.host = revents]
          ELSE last' = [o EXCEPT !.errno = ESUCCESS, !.sys = sys, !.out = out,
                                 !.host = revents]

\* events: the list the caller supplies; pollerr: what unix.Poll returns;
\* revents: what it stores.  With no descriptor to poll and a timeout that
\* is not negative the call starts the timer and waits in the select: it
\* has returned nothing yet, and PollTimerFires or PollContextDone ends it.
PollOneOff(subscriptions, events, pollerr, revents) ==
    LET o == [Obs("poll_one_off", NoFD, EINVAL, <<>>) EXCEPT
                 !.flags = {subscriptions}, !.out = events, !.arg = events]
    IN
    /\ Same
    /\ IF Len(subscriptions) = 0 THEN last' = o
       ELSE
       LET scan == PollScan(subscriptions, 1, Small(0 - 1), <<>>) IN
       IF scan.errno # ESUCCESS THEN last' = [o EXCEPT !.errno = scan.errno]
       ELSE IF Len(scan.pollfds) = 0
       THEN IF ~Less(scan.timeout, Small(0))
            THEN last' = [o EXCEPT !.op = "poll_one_off_select",
                                   !.errno = "pending",
                                   !.sys = <<CallArg("sleep", NoFD, {scan.timeout})>>]
            ELSE last' = [o EXCEPT !.errno = ESUCCESS]
       ELSE
       LET sys == <<CallArg("poll", scan.pollfds[1].Fd, {TimeoutMillis(scan.timeout)})>> IN
       IF pollerr # "nil" THEN last' = [o EXCEPT !.errno = makeErrno(pollerr), !.sys = sys]
       ELSE
       /\ Len(revents) = Len(scan.pollfds)
       /\ LET out == PollEvents(subscriptions, 1, 0, revents, events) IN
          IF NonZero(revents) # Len(out)
          THEN last' = [o EXCEPT !.errno = "panic", !.sys = sys, !.out = out,
                                 !.host = revents]
          ELSE last' = [o EXCEPT !.errno = ESUCCESS, !.sys = sys, !.out = out,
                                 !.host = revents]

\* The call waits in select { case <-t.C: case <-ctx.Done(): }.
PollWaits == last.op = "poll_one_off_select"

\* case <-t.C: the timer fires first and the call returns ESUCCESS.
PollTimerFires ==
    /\ PollWaits
    /\ Same /\ limit' = limit
    /\ last' = [last EXCEPT !.op = "poll_one_off", !.errno = ESUCCESS,
                            !.host = <<"nil">>]

\* case <-ctx.Done(): another goroutine has cancelled the context, or its
\* deadline has passed; the call returns makeErrno(ctx.Err()).
PollContextDone(ctxErr) ==
    /\ PollWaits
    /\ Same /\ limit' = limit
    /\ last' = [last EXCEPT !.op = "poll_one_off", !.errno = makeErrno(ctxErr),
                            !.host = <<ctxErr>>]

(***************************************************************************)
(* Provider: Close.                                                        *)
(***************************************************************************)
\* The unix.Close calls of p.fds.Range over the slots of S, in slot order;
\* each with how often the provider has then closed that object's descriptor.
RECURSIVE CloseAll(_, _)
CloseAll(S, c) ==
    IF S = {} THEN <<>>
    ELSE LET k == CHOOSE j \in S : \A i \in S : j <= i IN
         <<CallArg("close", info[fds[k]].fd, {CloseCount(c, fds[k])})>>
         \o CloseAll(S \ {k}, MarkClosed(c, fds[k]))

ProviderClose ==
    /\ fds' = <<>>
    /\ info' = <<>>
    /\ closed' = <<>>
    /\ preopens' = {}
    /\ openfds' = openfds \ {info[f].fd : f \in Refs(fds)}
    /\ last' = Obs("close", NoFD, ESUCCESS, CloseAll(DOMAIN fds, closed))

(***************************************************************************)
(* The callers.  The provider is not safe for concurrent use: one call     *)
(* runs at a time and its result is taken (Return) before the next.  The   *)
(* embedder registers standard streams and directories with Preopen.       *)
(* Where fd_renumber is among the calls, the live slots can outnumber the  *)
(* open descriptors, and the callers open nothing more once every slot of  *)
(* Slots is live; elsewhere the host limit keeps the table within Slots.   *)
(***************************************************************************)
\* A bit outside AllRights, as a caller may pass in a rights argument.
ExtraRight == {30}
SomeRights == PathOpenRight \cup FDReadRight \cup FDSeekRight \cup SockAcceptRight
FullRights == AllRights \cup ExtraRight
RightsInputs == {NoRights, SomeRights, FullRights}

\* What the clock does when fd_filestat_set_times needs the time.
ClockInputs == {"unused", "absent", "nil", "ETIMEDOUT"}

PathDir == <<"/", "d">>
PathHere == <<".">>
PathInputs ==
    { <<"x">>, <<".", ".">>, <<".", ".", "/", "x">>, <<"/", "x">>,
      <<"x", "/", ".", ".">>, <<"x", "/", ".", ".", "/", ".", ".">>,
      <<".", ".", "x">> }

SubFD(type, fd) ==
    [EventType |-> type, FD |-> fd, UserData |-> fd, ID |-> "Monotonic",
     Abstime |-> FALSE, Timeout |-> Small(0)]
SubClock(id) ==
    [EventType |-> "ClockEvent", FD |-> NoFD, UserData |-> 9, ID |-> id,
     Abstime |-> FALSE, Timeout |-> Small(1000)]
SubInputs ==
    {SubFD("FDReadEvent", 0), SubFD("FDWriteEvent", 1),
     SubClock("Monotonic"), SubClock("Realtime")}
SubscriptionInputs ==
    {<<>>} \cup {<<a>> : a \in SubInputs} \cup {<<a, b>> : a \in SubInputs, b \in SubInputs}
\* ctx.Err() of a context that is done: cancelled, or past its deadline.
CtxErrInputs == {"context.Canceled", "context.DeadlineExceeded"}

REventInputs == {<<>>, <<{}>>, <<{"POLLIN"}>>, <<{"POLLIN"}, {"POLLOUT", "POLLHUP"}>>}

\* The result of the call is taken.
Return ==
    /\ last # Idle
    /\ ~PollWaits
    /\ last' = Idle
    /\ UNCHANGED <<fds, preopens, info, closed, openfds, limit>>

\* The embedder obtains a descriptor from the host, the lowest number that
\* is not open, and registers it.
Register(path, fileType, flags, rightsBase, rightsInheriting) ==
    /\ TableHasRoom
    /\ HostHasRoom
    /\ openfds' = openfds \cup {FreshHostFD}
    /\ Preopen(FreshHostFD, path, fileType, flags, rightsBase, rightsInheriting)

InitWith(n) ==
    /\ fds = <<>>
    /\ preopens = {}
    /\ info = <<>>
    /\ closed = <<>>
    /\ openfds = {}
    /\ limit = n
    /\ last = Idle

Init == InitWith(MaxFD)

(***************************************************************************)
(* Spec: the descriptor table and the life cycle of its entries.           *)
(***************************************************************************)
Calls ==
    \/ \E t \in {"Directory", "SocketStream"} : Register(PathDir, t, {}, FullRights, FullRights)
    \/ \E fd \in Slots : FDClose(fd)
    \/ \E from \in Slots, to \in Slots : FDRenumber(from, to)
    \/ \E fd \in Slots, of \in {{}, {"OpenDirectory"}} :
           TableHasRoom /\ PathOpen(fd, {}, PathHere, of, FullRights, FullRights, {})
    \/ \E fd \in Slots : TableHasRoom /\ SockAccept(fd, {})
    \/ \E fd \in Slots : FDStatGet(fd)
    \/ \E fd \in Slots : FDRead(fd)
    \/ ProviderClose

Next ==
    \/ last = Idle /\ limit' = limit /\ Calls
    \/ Return

Spec == Init /\ [][Next]_vars

(***************************************************************************)
(* SpecRights: the rights of the entries, with every operation that makes  *)
(* or changes an entry and callers that ask for less, the same and more.   *)
(***************************************************************************)
CallsRights ==
    \/ \E t \in {"Directory", "SocketStream"} : Register(PathDir, t, {}, FullRights, FullRights)
    \/ \E fd \in Slots, rb \in RightsInputs, ri \in RightsInputs : FDStatSetRights(fd, rb, ri)
    \/ \E fd \in Slots, of \in {{}, {"OpenDirectory"}}, rb \in RightsInputs, ri \in RightsInputs :
           TableHasRoom /\ PathOpen(fd, {}, PathHere, of, rb, ri, {})
    \/ \E fd \in Slots : TableHasRoom /\ SockAccept(fd, {})
    \/ \E fd \in Slots : FDClose(fd)
    \/ \E from \in Slots, to \in Slots : FDRenumber(from, to)
    \/ ProviderClose

NextRights ==
    \/ last = Idle /\ limit' = limit /\ CallsRights
    \/ Return

SpecRights == Init /\ [][NextRights]_vars

(***************************************************************************)
(* SpecPaths: the path operations on pre-opened directories and their      *)
(* children, with paths that stay inside and paths that do not.            *)
(***************************************************************************)
CallsPaths ==
    \/ Register(PathDir, "Directory", {}, AllRights, AllRights)
    \/ \E fd \in Slots : FDClose(fd)
    \/ \E fd \in Slots, path \in PathInputs, of \in {{}, {"OpenDirectory"}} :
           PathOpen(fd, {}, path, of, AllRights, AllRights, {})
    \/ \E fd \in Slots, path \in PathInputs : PathCreateDirectory(fd, path)
    \/ \E fd \in Slots, path \in PathInputs : PathFileStatGet(fd, path)
    \/ \E fd \in Slots, path \in PathInputs, keepOne \in BOOLEAN :
           PathFileStatSetTimes(fd, path, keepOne)
    \/ \E fd \in Slots, path \in PathInputs, newFD \in Slots, newPath \in PathInputs :
           PathLink(fd, path, newFD, newPath)
    \/ \E fd \in Slots, path \in PathInputs, full \in BOOLEAN : PathReadLink(fd, path, full)
    \/ \E fd \in Slots, path \in PathInputs : PathRemoveDirectory(fd, path)
    \/ \E fd \in Slots, path \in PathInputs, newFD \in Slots, newPath \in PathInputs :
           PathRename(fd, path, newFD, newPath)
    \/ \E fd \in Slots, oldPath \in PathInputs, newPath \in PathInputs :
           PathSymlink(oldPath, fd, newPath)
    \/ \E fd \in Slots, path \in PathInputs : PathUnlinkFile(fd, path)

NextPaths ==
    \/ last = Idle /\ limit' = limit /\ CallsPaths
    \/ Return

SpecPaths == Init /\ [][NextPaths]_vars

(***************************************************************************)
(* SpecOps: every operation that asks lookupFD for a right, on entries     *)
(* whose rights the guest has dropped in part, in full or not at all.      *)
(***************************************************************************)
CallsOps ==
    \/ \E t \in {"Directory", "SocketStream"} : Register(PathDir, t, {}, AllRights, AllRights)
    \/ \E fd \in Slots, rb \in RightsInputs : FDStatSetRights(fd, rb, AllRights)
    \/ \E fd \in Slots : FDClose(fd)
    \/ \E fd \in Slots, of \in {{}, {"OpenDirectory"}, {"OpenCreate"}, {"OpenTruncate"}} :
           PathOpen(fd, {}, PathHere, of, SomeRights, SomeRights, {})
    \/ \E fd \in Slots, flags \in {{}, {"NonBlock"}, {"Append"}} : SockAccept(fd, flags)
    \/ \E fd \in Slots : FDAdvise(fd)
    \/ \E fd \in Slots : FDAllocate(fd)
    \/ \E fd \in Slots : FDDataSync(fd)
    \/ \E fd \in Slots : FDSync(fd)
    \/ \E fd \in Slots : FDFileStatGet(fd)
    \/ \E fd \in Slots : FDFileStatSetSize(fd)
    \/ \E fd \in Slots, clock \in ClockInputs : FDFileStatSetTimes(fd, clock)
    \/ \E fd \in Slots : FDPread(fd)
    \/ \E fd \in Slots : FDPwrite(fd)
    \/ \E fd \in Slots : FDRead(fd)
    \/ \E fd \in Slots : FDWrite(fd)
    \/ \E fd \in Slots, whence \in {0, 3} : FDSeek(fd, 0, whence)
    \/ \E fd \in Slots : FDTell(fd)
    \/ \E fd \in Slots, flags \in {{}, {"Append"}, {"Sync", "DSync", "RSync"}} :
           FDStatSetFlags(fd, flags)
    \/ \E fd \in Slots, cookie \in {Small(0), Small(1)}, readErr \in BOOLEAN :
           FDReadDir(fd, 30, cookie, readErr, << <<"a">> >>, TRUE, TRUE, {})
    \/ \E fd \in Slots : PathCreateDirectory(fd, PathHere)
    \/ \E fd \in Slots : PathFileStatGet(fd, PathHere)
    \/ \E fd \in Slots : PathFileStatSetTimes(fd, PathHere, FALSE)
    \/ \E fd \in Slots, newFD \in Slots : PathLink(fd, PathHere, newFD, PathHere)
    \/ \E fd \in Slots : PathReadLink(fd, PathHere, FALSE)
    \/ \E fd \in Slots : PathRemoveDirectory(fd, PathHere)
    \/ \E fd \in Slots, newFD \in Slots : PathRename(fd, PathHere, newFD, PathHere)
    \/ \E fd \in Slots : PathSymlink(PathHere, fd, PathHere)
    \/ \E fd \in Slots : PathUnlinkFile(fd, PathHere)
    \/ \E fd \in Slots : SockRecv(fd)
    \/ \E fd \in Slots : SockSend(fd)
    \/ \E fd \in Slots, flags \in {{}, {"ShutdownRD"}, {"ShutdownWR"}, {"ShutdownRD", "ShutdownWR"}} :
           SockShutdown(fd, flags)
    \/ \E subscriptions \in SubscriptionInputs,
          pollerr \in {"nil", "EINTR"}, revents \in REventInputs :
           PollOneOff(subscriptions, <<>>, pollerr, revents)

NextOps ==
    \/ last = Idle /\ limit' = limit /\ CallsOps
    \/ PollTimerFires
    \/ \E ctxErr \in CtxErrInputs : PollContextDone(ctxErr)
    \/ Return

SpecOps == Init /\ [][NextOps]_vars

(***************************************************************************)
(* SpecPoll: poll_one_off with clock subscriptions of every size, FD       *)
(* subscriptions on live, dead and rightless descriptors, and event lists  *)
(* that are empty or not when the call is made.                            *)
(***************************************************************************)
SubTimer(t) ==
    [EventType |-> "ClockEvent", FD |-> NoFD, UserData |-> 9, ID |-> "Monotonic",
     Abstime |-> FALSE, Timeout |-> t]
SubAbstime ==
    [EventType |-> "ClockEvent", FD |-> NoFD, UserData |-> 9, ID |-> "Monotonic",
     Abstime |-> TRUE, Timeout |-> Small(1000)]
\* Timeouts of the uint64 range: zero, a microsecond, two milliseconds, the
\* largest that int64 holds, the first that it does not (2^63), and the
\* largest (2^64 - 1).
TimeoutInputs ==
    {Small(0), Small(1000), Small(2000000), MaxInt, Num(1, 0), Num(2, 0 - 1)}
PollSubInputs ==
    {SubFD("FDReadEvent", 0), SubFD("FDWriteEvent", 1), SubClock("Realtime"), SubAbstime}
    \cup {SubTimer(t) : t \in TimeoutInputs}
PollSubscriptionInputs ==
    {<<>>} \cup {<<a>> : a \in PollSubInputs}
    \cup {<<a, b>> : a \in PollSubInputs, b \in PollSubInputs}
\* An event the caller's list holds before the call.
OldEvent ==
    [UserData |-> 7, EventType |-> "FDReadEvent", Errno |-> ESUCCESS,
     NBytes |-> 1, Flags |-> {}]

CallsPoll ==
    \/ Register(PathDir, "SocketStream", {}, AllRights, AllRights)
    \/ \E fd \in Slots : FDStatSetRights(fd, NoRights, NoRights)
    \/ \E fd \in Slots : FDClose(fd)
    \/ \E subscriptions \in PollSubscriptionInputs, events \in {<<>>, <<OldEvent>>},
          pollerr \in {"nil", "EINTR"}, revents \in REventInputs :
           PollOneOff(subscriptions, events, pollerr, revents)

NextPoll ==
    \/ last = Idle /\ limit' = limit /\ CallsPoll
    \/ PollTimerFires
    \/ \E ctxErr \in CtxErrInputs : PollContextDone(ctxErr)
    \/ Return

SpecPoll == Init /\ [][NextPoll]_vars

(***************************************************************************)
(* SpecFlags: the flag arguments of fd_stat_set_flags and sock_shutdown,   *)
(* on directories and sockets, with and without rights.                    *)
(***************************************************************************)
FDFlagsInputs ==
    {{}, {"Append"}, {"NonBlock"}, {"Sync"}, {"DSync"}, {"RSync"},
     {"Append", "Sync"}, {"Sync", "DSync", "RSync"}}
SDFlagsInputs == SUBSET {"ShutdownRD", "ShutdownWR"}

CallsFlags ==
    \/ \E t \in {"Directory", "SocketStream"} : Register(PathDir, t, {}, AllRights, AllRights)
    \/ \E fd \in Slots : FDStatSetRights(fd, NoRights, NoRights)
    \/ \E fd \in Slots : FDClose(fd)
    \/ \E fd \in Slots, flags \in FDFlagsInputs : FDStatSetFlags(fd, flags)
    \/ \E fd \in Slots, flags \in SDFlagsInputs : SockShutdown(fd, flags)

NextFlags ==
    \/ last = Idle /\ limit' = limit /\ CallsFlags
    \/ Return

SpecFlags == Init /\ [][NextFlags]_vars

(***************************************************************************)
(* SpecSeek: fd_seek and fd_tell on entries that hold FDSeekRight,         *)
(* FDTellRight, both or neither, and path_open of files and directories    *)
(* through directories with requests that include FDSeekRight or not.      *)
(***************************************************************************)
SeekRightsInputs ==
    {NoRights, PathOpenRight \cup FDSeekRight, PathOpenRight \cup FDTellRight, AllRights}

CallsSeek ==
    \/ Register(PathDir, "Directory", {}, AllRights, AllRights)
    \/ \E fd \in Slots, rb \in SeekRightsInputs, ri \in {AllRights, PathOpenRight \cup FDTellRight} :
           FDStatSetRights(fd, rb, ri)
    \/ \E fd \in Slots, of \in {{}, {"OpenDirectory"}}, rb \in SeekRightsInputs :
           PathOpen(fd, {}, PathHere, of, rb, AllRights, {})
    \/ \E fd \in Slots : FDClose(fd)
    \/ \E fd \in Slots, delta \in {0, 1}, whence \in {0, 1} : FDSeek(fd, delta, whence)
    \/ \E fd \in Slots : FDTell(fd)

NextSeek ==
    \/ last = Idle /\ limit' = limit /\ CallsSeek
    \/ Return

SpecSeek == Init /\ [][NextSeek]_vars

(***************************************************************************)
(* SpecPreopen: the pre-open set, with directories, standard streams and   *)
(* sockets registered under two paths, closed, and their slot numbers      *)
(* issued again to entries that path_open and sock_accept make.            *)
(***************************************************************************)
PathRoot == <<"/">>

CallsPreopen ==
    \/ \E path \in {PathDir, PathRoot}, t \in {"Directory", "CharacterDevice", "SocketStream"} :
           Register(path, t, {}, AllRights, AllRights)
    \/ \E fd \in Slots : FDClose(fd)
    \/ \E from \in Slots, to \in Slots : FDRenumber(from, to)
    \/ \E fd \in Slots, of \in {{}, {"OpenDirectory"}} :
           TableHasRoom /\ PathOpen(fd, {}, PathHere, of, AllRights, AllRights, {})
    \/ \E fd \in Slots : TableHasRoom /\ SockAccept(fd, {})
    \/ \E fd \in Slots : FDPreStatGet(fd)
    \/ \E fd \in Slots : FDPreStatDirName(fd)
    \/ ProviderClose

NextPreopen ==
    \/ last = Idle /\ limit' = limit /\ CallsPreopen
    \/ Return

SpecPreopen == Init /\ [][NextPreopen]_vars

(***************************************************************************)
(* SpecEvents: poll_one_off on live descriptors, with every combination    *)
(* of readiness, error and hang-up the host poll can report for them.      *)
(***************************************************************************)
EventSub(type, fd, data) == [SubFD(type, fd) EXCEPT !.UserData = data]
EventSubInputs ==
    {EventSub("FDReadEvent", 0, 10), EventSub("FDWriteEvent", 0, 11),
     EventSub("FDWriteEvent", 1, 12)}
EventSubscriptionInputs ==
    {<<a>> : a \in EventSubInputs \cup {SubTimer(Small(1000))}}
    \cup {<<a, b>> : a \in EventSubInputs \cup {SubTimer(Small(1000))}, b \in EventSubInputs}
    \cup {<<a, SubTimer(Small(1000)), b>> : a \in EventSubInputs, b \in EventSubInputs}
REventSets ==
    {{}, {"POLLIN"}, {"POLLOUT"}, {"POLLERR"}, {"POLLHUP"},
     {"POLLIN", "POLLHUP"}, {"POLLOUT", "POLLERR"}}
EventREventInputs ==
    {<<>>} \cup {<<a>> : a \in REventSets} \cup {<<a, b>> : a \in REventSets, b \in REventSets}

CallsEvents ==
    \/ Register(PathDir, "SocketStream", {}, AllRights, AllRights)
    \/ \E fd \in Slots : FDClose(fd)
    \/ \E subscriptions \in EventSubscriptionInputs, events \in {<<>>, <<OldEvent>>},
          pollerr \in {"nil", "EINTR"}, revents \in EventREventInputs :
           PollOneOff(subscriptions, events, pollerr, revents)

NextEvents ==
    \/ last = Idle /\ limit' = limit /\ CallsEvents
    \/ PollTimerFires
    \/ \E ctxErr \in CtxErrInputs : PollContextDone(ctxErr)
    \/ Return

SpecEvents == Init /\ [][NextEvents]_vars

(***************************************************************************)
(* SpecDir: directory enumeration, with listings of several lengths,       *)
(* buffers that hold none, one or all of the entries, and a host whose     *)
(* stat of the directory or of its parent may fail.                        *)
(***************************************************************************)
ListingInputs == {<<>>, << <<"a">> >>, << <<"a">>, <<"b">> >>}
BufferSizeInputs == {0, SizeOfDirEntry + 1, 8 * SizeOfDirEntry}
\* Cookies: inside and past the cache, the largest that int holds, and 2^63.
CookieInputs == {Small(0), Small(1), Small(2), Small(4), MaxInt, Num(1, 0)}
\* The files that are gone when the entries are read: none, or b.
GoneInputs == {{}, {<<"b">>}}

CallsDir ==
    \/ Register(PathDir, "Directory", {}, AllRights, AllRights)
    \/ \E fd \in Slots : PathOpen(fd, {}, PathHere, {"OpenDirectory"}, AllRights, AllRights, {})
    \/ \E fd \in Slots : FDClose(fd)
    \/ \E fd \in Slots, bufferSizeBytes \in BufferSizeInputs, cookie \in CookieInputs,
          readErr \in BOOLEAN, listing \in ListingInputs,
          statDot \in BOOLEAN, statDotDot \in BOOLEAN, gone \in GoneInputs :
           FDReadDir(fd, bufferSizeBytes, cookie, readErr, listing, statDot, statDotDot,
                     gone)

NextDir ==
    \/ last = Idle /\ limit' = limit /\ CallsDir
    \/ Return

SpecDir == Init /\ [][NextDir]_vars

(***************************************************************************)
(* Properties of the descriptor table (under Spec).                        *)
(***************************************************************************)
\* C4: after fd_close(fd) on a live descriptor the host handle of the entry
\* has been closed exactly once in total, fd is not a pre-open any more and
\* slot fd is free, so that a lookup of fd gives EBADF.
C4_ClosedExactlyOnce ==
    (last.op = "fd_close" /\ last.sys # <<>>)
        => /\ last.nclose = 1
           /\ last.fd \notin preopens
           /\ lookupFD(last.fd, NoRights).errno = EBADF

\* C9: the slot an insertion (Preopen, a successful path_open, a successful
\* sock_accept) returns was not live and every smaller slot was live,
\* whatever closes and renumberings came before; it is the one slot the
\* call adds, it holds the object the call has made, and every slot that
\* was live keeps its object.
C9_LowestFreeSlot ==
    [][(last'.op \in {"preopen", "path_open", "sock_accept"} /\ last'.errno = ESUCCESS)
          => /\ last'.ret \notin DOMAIN fds
             /\ \A k \in 0 .. (last'.ret - 1) : k \in DOMAIN fds
             /\ DOMAIN fds' = DOMAIN fds \cup {last'.ret}
             /\ fds'[last'.ret] \notin Refs(fds)
             /\ \A k \in DOMAIN fds : fds'[k] = fds[k]
             /\ last'.op = "preopen" <=> last'.ret \in preopens']_vars

\* A path_open through slot 1 is given slot 0, below the live slot.
C9_Witness ==
    /\ last.op = "path_open" /\ last.errno = ESUCCESS
    /\ last.fd = 1 /\ last.ret = 0
    /\ DOMAIN fds = {0, 1}

\* C10: after fd_renumber(from, to), with from live, from # to and neither a
\* pre-open, slot from is free, slot to refers to the entry that was at from,
\* and the handle of the entry that was at to has been closed.
C10_RenumberMoves ==
    [][(/\ last'.op = "fd_renumber"
        /\ last'.fd \in DOMAIN fds
        /\ last'.fd # last'.fd2
        /\ last'.fd \notin preopens /\ last'.fd2 \notin preopens)
          => /\ last'.fd \notin DOMAIN fds'
             /\ last'.fd2 \in DOMAIN fds' /\ fds'[last'.fd2] = fds[last'.fd]
             /\ (last'.fd2 \in DOMAIN fds
                    => last'.sys = <<Call("close", info[fds[last'.fd2]].fd)>>)]_vars

(***************************************************************************)
(* Properties of the rights of the entries (under SpecRights).             *)
(***************************************************************************)
\* C5 (as the code has it): fd_stat_set_rights on a live descriptor, with
\* the requested sets cut to AllRights first, can only drop rights.  If the
\* requested base is not a subset of the entry's rights_base, or the
\* requested inheriting set not a subset of its rights_inheriting, it
\* returns ENOTCAPABLE and leaves both sets as they were; otherwise it
\* succeeds and the new sets are the requested ones.  It needs no right.
C5_SetRightsOnlyDrops ==
    [][(last'.op = "fd_stat_set_rights" /\ last'.fd \in DOMAIN fds)
          => LET h == fds[last'.fd]
                 pre == info[h].stat
                 post == info'[h].stat
                 rb == last'.rb \cap AllRights
                 ri == last'.ri \cap AllRights
             IN IF rb \subseteq pre.RightsBase /\ ri \subseteq pre.RightsInheriting
                THEN /\ last'.errno = ESUCCESS
                     /\ post.RightsBase = rb /\ post.RightsInheriting = ri
                     /\ post.RightsBase \subseteq pre.RightsBase
                     /\ post.RightsInheriting \subseteq pre.RightsInheriting
                ELSE /\ last'.errno = ENOTCAPABLE
                     /\ post.RightsBase = pre.RightsBase
                     /\ post.RightsInheriting = pre.RightsInheriting]_vars

\* An entry has dropped to SomeRights and no inheriting rights: the call
\* succeeded and the sets are the requested ones.
C5_Witness ==
    /\ last.op = "fd_stat_set_rights" /\ last.errno = ESUCCESS
    /\ last.rb = SomeRights /\ last.ri = NoRights
    /\ last.fd \in DOMAIN fds
    /\ info[fds[last.fd]].stat.RightsBase = SomeRights
    /\ info[fds[last.fd]].stat.RightsInheriting = NoRights

\* C5 as stated, with the requested sets taken as the caller passed them.
C5_AsStated ==
    [][(last'.op = "fd_stat_set_rights" /\ last'.fd \in DOMAIN fds)
          => LET h == fds[last'.fd]
                 pre == info[h].stat
                 post == info'[h].stat
             IN IF last'.rb \subseteq pre.RightsBase /\ last'.ri \subseteq pre.RightsInheriting
                THEN /\ last'.errno = ESUCCESS
                     /\ post.RightsBase = last'.rb /\ post.RightsInheriting = last'.ri
                ELSE /\ last'.errno = ENOTCAPABLE
                     /\ post.RightsBase = pre.RightsBase
                     /\ post.RightsInheriting = pre.RightsInheriting]_vars

\* C6: no step gives an entry a right it did not have: the rights_base and
\* the rights_inheriting of every entry that lives on are subsets of what
\* they were.
C6_RightsNeverGrow ==
    [][\A h \in DOMAIN info \cap DOMAIN info' :
          /\ info'[h].stat.RightsBase \subseteq info[h].stat.RightsBase
          /\ info'[h].stat.RightsInheriting \subseteq info[h].stat.RightsInheriting]_vars

\* A pre-opened directory whose rights were all dropped refuses path_open.
C6_Witness ==
    /\ last.op = "path_open" /\ last.errno = ENOTCAPABLE
    /\ last.fd \in DOMAIN fds /\ last.fd \in preopens
    /\ info[fds[last.fd]].stat.FileType = "Directory"
    /\ info[fds[last.fd]].stat.RightsBase = NoRights

\* C7: the rights_base and rights_inheriting of every live entry are
\* subsets of AllRights.
C7_RightsWithinAllRights ==
    \A fd \in DOMAIN fds :
        /\ info[fds[fd]].stat.RightsBase \subseteq AllRights
        /\ info[fds[fd]].stat.RightsInheriting \subseteq AllRights

\* A path_open that asked for a bit outside AllRights has made an entry.
C7_Witness ==
    /\ last.op = "path_open" /\ last.errno = ESUCCESS
    /\ ExtraRight \subseteq last.rb /\ ExtraRight \subseteq last.ri
    /\ last.ret \in DOMAIN fds
    /\ info[fds[last.ret]].stat.RightsBase = AllRights

\* The lexical normalization of path is absolute or begins with "..".
LeavesDirectory(path) ==
    LET clean == Clean(path) IN
    \/ HasPrefix(clean, <<"/">>)
    \/ clean = <<".", ".">>
    \/ HasPrefix(clean, <<".", ".", "/">>)

\* C8 (as the code has it): path_open through a live descriptor that holds
\* PathOpenRight, with a path that stays inside and the requested sets cut
\* to AllRights first.  If the requested base or the requested inheriting
\* set has a bit the directory's rights_inheriting lacks, the call fails
\* ENOTCAPABLE, opens nothing and adds no slot; on success the child's
\* rights_inheriting is the requested set and its rights_base the requested
\* base (less FDSeekRight with OpenDirectory), both within the directory's
\* rights_inheriting.
C8_PathOpenClipsRights ==
    [][(/\ last'.op = "path_open"
        /\ last'.fd \in DOMAIN fds
        /\ Has(info[fds[last'.fd]].stat.RightsBase, PathOpenRight)
        /\ ~LeavesDirectory(last'.path))
          => LET dir == info[fds[last'.fd]].stat
                 rb == last'.rb \cap AllRights
                 ri == last'.ri \cap AllRights
             IN IF ~(rb \subseteq dir.RightsInheriting) \/ ~(ri \subseteq dir.RightsInheriting)
                THEN /\ last'.errno = ENOTCAPABLE
                     /\ last'.sys = <<>>
                     /\ fds' = fds
                ELSE last'.errno = ESUCCESS
                     => LET child == info'[fds'[last'.ret]].stat IN
                        /\ child.RightsInheriting = ri
                        /\ child.RightsBase =
                              (IF "OpenDirectory" \in last'.oflags
                               THEN rb \ FDSeekRight ELSE rb)
                        /\ child.RightsBase \subseteq dir.RightsInheriting
                        /\ child.RightsInheriting \subseteq dir.RightsInheriting]_vars

\* A directory was opened with SomeRights asked for: the child has them
\* less FDSeekRight, and the directory it was opened through still has
\* every right to pass on.
C8_Witness ==
    /\ last.op = "path_open" /\ last.errno = ESUCCESS
    /\ "OpenDirectory" \in last.oflags
    /\ last.rb = SomeRights /\ last.ri = SomeRights
    /\ last.ret \in DOMAIN fds /\ last.fd \in DOMAIN fds
    /\ info[fds[last.ret]].stat.RightsBase = SomeRights \ FDSeekRight
    /\ info[fds[last.ret]].stat.RightsInheriting = SomeRights
    /\ info[fds[last.fd]].stat.RightsInheriting = AllRights

\* C8 as stated, with the requested sets taken as the caller passed them.
C8_AsStated ==
    [][(/\ last'.op = "path_open"
        /\ last'.fd \in DOMAIN fds
        /\ Has(info[fds[last'.fd]].stat.RightsBase, PathOpenRight)
        /\ ~LeavesDirectory(last'.path))
          => LET dir == info[fds[last'.fd]].stat IN
             IF ~(last'.rb \subseteq dir.RightsInheriting)
                \/ ~(last'.ri \subseteq dir.RightsInheriting)
             THEN /\ last'.errno = ENOTCAPABLE
                  /\ last'.sys = <<>>
                  /\ fds' = fds
             ELSE last'.errno = ESUCCESS
                  => LET child == info'[fds'[last'.ret]].stat IN
                     /\ child.RightsInheriting = last'.ri
                     /\ child.RightsBase =
                           (IF "OpenDirectory" \in last'.oflags
                            THEN last'.rb \ FDSeekRight ELSE last'.rb)]_vars

(***************************************************************************)
(* Properties of the paths (under SpecPaths).                              *)
(***************************************************************************)
\* C2: path_open through a live descriptor that holds PathOpenRight, with a
\* path whose lexical normalization is absolute or begins with ".." (the
\* path that normalizes to ".." included), returns EPERM, opens nothing on
\* the host and adds no slot.
C2_PathOpenStaysInside ==
    [][(/\ last'.op = "path_open"
        /\ last'.fd \in DOMAIN fds
        /\ Has(info[fds[last'.fd]].stat.RightsBase, PathOpenRight)
        /\ LeavesDirectory(last'.path))
          => /\ last'.errno = EPERM
             /\ last'.sys = <<>>
             /\ fds' = fds]_vars

\* C3: every other directory-relative path operation, through a live
\* descriptor that holds the right it needs, with a path whose lexical
\* normalization is absolute or begins with "..", returns EPERM and makes
\* no host call.
C3_PathOpsStayInside ==
    (/\ last.op \in {"path_create_directory", "path_filestat_get",
                     "path_filestat_set_times", "path_link", "path_readlink",
                     "path_remove_directory", "path_rename", "path_symlink",
                     "path_unlink_file"}
     /\ last.errno \notin {EBADF, ENOTCAPABLE}
     /\ (LeavesDirectory(last.path) \/ LeavesDirectory(last.path2)))
        => /\ last.errno = EPERM
           /\ last.sys = <<>>

(***************************************************************************)
(* Properties of the rights check (under SpecOps).                         *)
(***************************************************************************)
\* The right set each operation declares for its descriptor.
RequiredRights ==
    ("fd_advise" :> FDAdviseRight) @@ ("fd_allocate" :> FDAllocateRight)
    @@ ("fd_datasync" :> FDDataSyncRight) @@ ("fd_sync" :> FDSyncRight)
    @@ ("fd_filestat_get" :> FDFileStatGetRight)
    @@ ("fd_filestat_set_size" :> FDFileStatSetSizeRight)
    @@ ("fd_filestat_set_times" :> FDFileStatSetTimesRight)
    @@ ("fd_pread" :> (FDReadRight \cup FDSeekRight))
    @@ ("fd_pwrite" :> (FDWriteRight \cup FDSeekRight))
    @@ ("fd_read" :> FDReadRight) @@ ("fd_write" :> FDWriteRight)
    @@ ("fd_seek" :> FDSeekRight) @@ ("fd_tell" :> FDTellRight)
    @@ ("fd_stat_set_flags" :> FDStatSetFlagsRight)
    @@ ("fd_read_dir" :> FDReadDirRight)
    @@ ("path_create_directory" :> PathCreateDirectoryRight)
    @@ ("path_filestat_get" :> PathFileStatGetRight)
    @@ ("path_filestat_set_times" :> PathFileStatSetTimesRight)
    @@ ("path_link" :> PathLinkSourceRight)
    @@ ("path_open" :> PathOpenRight)
    @@ ("path_readlink" :> PathReadLinkRight)
    @@ ("path_remove_directory" :> PathRemoveDirectoryRight)
    @@ ("path_rename" :> PathRenameSourceRight)
    @@ ("path_symlink" :> PathSymlinkRight)
    @@ ("path_unlink_file" :> PathUnlinkFileRight)
    @@ ("sock_accept" :> SockAcceptRight) @@ ("sock_recv" :> FDReadRight)
    @@ ("sock_send" :> FDWriteRight) @@ ("sock_shutdown" :> SockShutdownRight)

\* The right set the two-descriptor operations declare for the second one.
RequiredRightsTarget ==
    ("path_link" :> PathLinkTargetRight) @@ ("path_rename" :> PathRenameTargetRight)

\* What call o needs of its descriptor: the declared set, and for path_open
\* the right to create or to truncate when it is asked to.
RequiredOf(o) ==
    RequiredRights[o.op]
    \cup (IF o.op = "path_open" /\ "OpenCreate" \in o.oflags
          THEN PathCreateFileRight ELSE {})
    \cup (IF o.op = "path_open" /\ "OpenTruncate" \in o.oflags
          THEN PathFileStatSetSizeRight ELSE {})

\* C1: an operation that declares a right set R, called on a live
\* descriptor (two live descriptors for path_link and path_rename) whose
\* rights_base lacks a right of R, returns ENOTCAPABLE, makes no host call
\* and changes nothing; when rights_base has all of R it is not refused
\* (path_open: unless it asks for rights the directory may not pass on).
\* For poll_one_off, whose subscriptions are all well-formed and name live
\* descriptors: it returns ENOTCAPABLE without a host call if the descriptor
\* of some FD subscription lacks PollFDReadWriteRight, and is not refused
\* otherwise.
C1_RightsGate ==
    [][/\ (/\ last'.op \in DOMAIN RequiredRights
           /\ last'.fd \in DOMAIN fds
           /\ (last'.op \in DOMAIN RequiredRightsTarget => last'.fd2 \in DOMAIN fds))
          => LET base == info[fds[last'.fd]].stat.RightsBase
                 granted ==
                     /\ RequiredOf(last') \subseteq base
                     /\ (last'.op \in DOMAIN RequiredRightsTarget
                           => RequiredRightsTarget[last'.op]
                                 \subseteq info[fds[last'.fd2]].stat.RightsBase)
                 clipped ==
                     /\ last'.op = "path_open"
                     /\ ~((last'.rb \cup last'.ri) \cap AllRights
                             \subseteq info[fds[last'.fd]].stat.RightsInheriting)
             IN /\ ~granted => /\ last'.errno = ENOTCAPABLE
                               /\ last'.sys = <<>>
                               /\ UNCHANGED <<fds, preopens, info, closed, openfds>>
                /\ (granted /\ ~clipped) => last'.errno # ENOTCAPABLE
       /\ last'.op = "poll_one_off"
          => LET subscriptions == CHOOSE s \in last'.flags : TRUE
                 fdsubs == {i \in 1 .. Len(subscriptions) :
                              subscriptions[i].EventType \in {"FDReadEvent", "FDWriteEvent"}}
             IN (/\ Len(subscriptions) > 0
                 /\ \A i \in fdsubs : subscriptions[i].FD \in DOMAIN fds
                 /\ \A i \in (1 .. Len(subscriptions)) \ fdsubs :
                       subscriptions[i].ID = "Monotonic" /\ ~subscriptions[i].Abstime)
                => IF \E i \in fdsubs :
                         ~(PollFDReadWriteRight
                             \subseteq info[fds[subscriptions[i].FD]].stat.RightsBase)
                   THEN /\ last'.errno = ENOTCAPABLE
                        /\ last'.sys = <<>>
                        /\ UNCHANGED <<fds, preopens, info, closed, openfds>>
                   ELSE last'.errno # ENOTCAPABLE]_vars

\* fd_pwrite on an entry that has FDSeekRight and not FDWriteRight was
\* refused before any host call.
C1_Witness ==
    /\ last.op = "fd_pwrite" /\ last.errno = ENOTCAPABLE /\ last.sys = <<>>
    /\ last.fd \in DOMAIN fds
    /\ info[fds[last.fd]].stat.RightsBase = SomeRights

(***************************************************************************)
(* More properties of the descriptor table (under Spec).                   *)
(***************************************************************************)
\* C11: no two distinct live slots refer to the same host handle.
C11_NoSharedHandle ==
    \A a \in DOMAIN fds, b \in DOMAIN fds :
        a # b => fds[a] # fds[b] /\ info[fds[a]].fd # info[fds[b]].fd

\* C12: Provider.Close closes the host handle of every live entry exactly
\* once, none twice and none skipped, and leaves the descriptor table and
\* the pre-open set empty.
C12_CloseClosesEachOnce ==
    [][last'.op = "close"
          => /\ {last'.sys[i].fd : i \in DOMAIN last'.sys}
                   = {info[f].fd : f \in Refs(fds)}
             /\ Len(last'.sys) = Cardinality({info[f].fd : f \in Refs(fds)})
             /\ \A i \in DOMAIN last'.sys : last'.sys[i].arg = {1}
             /\ fds' = <<>>
             /\ preopens' = {}]_vars

\* C13: fd_renumber(from, to) with from or to a pre-open returns ENOTSUP,
\* closes no handle and leaves the descriptor table and the pre-open set
\* as they were, whether from is live or not.
C13_RenumberPreopenRefused ==
    [][(/\ last'.op = "fd_renumber"
        /\ (last'.fd \in preopens \/ last'.fd2 \in preopens))
          => /\ last'.errno = ENOTSUP
             /\ last'.sys = <<>>
             /\ UNCHANGED <<fds, preopens, info, closed, openfds>>]_vars

\* fd_renumber from a free slot onto a pre-open was refused with ENOTSUP.
C13_Witness ==
    /\ last.op = "fd_renumber" /\ last.errno = ENOTSUP
    /\ last.fd \notin DOMAIN fds
    /\ last.fd2 \in preopens /\ last.fd2 \in DOMAIN fds

\* C14: fd_renumber(from, to) with from live and neither from nor to a
\* pre-open returns ESUCCESS.
C14_RenumberSucceeds ==
    [][(/\ last'.op = "fd_renumber"
        /\ last'.fd \in DOMAIN fds
        /\ last'.fd \notin preopens /\ last'.fd2 \notin preopens)
          => last'.errno = ESUCCESS]_vars

(***************************************************************************)
(* Properties of the directory enumeration (under SpecDir).                *)
(***************************************************************************)
\* The bytes FDReadDir counts for the entries of out.
RECURSIVE DirBytes(_)
DirBytes(out) ==
    IF out = <<>> THEN 0
    ELSE SizeOfDirEntry + Head(out).NameLength + DirBytes(Tail(out))

\* The entries of out are those of cache from index cookie on, in order,
\* none skipped or repeated, up to the end of cache or to the first entry
\* with which the byte count reaches size.
ResumesAt(out, cache, cookie, size) ==
    /\ \A i \in 1 .. Len(out) :
          /\ cookie + i <= Len(cache)
          /\ out[i].Name = cache[cookie + i]
          /\ out[i].Next = cookie + i
    /\ (cookie + Len(out) < Len(cache)) => DirBytes(out) >= size
    /\ (out # <<>>) => DirBytes(SubSeq(out, 1, Len(out) - 1)) < size

\* C15: a successful fd_read_dir returns the entries of the cached listing
\* from index cookie on, in order, with nothing skipped or repeated.  A
\* call with cookie # 0 leaves the cache as it is; a call with cookie = 0
\* replaces it by the host entries followed by "." and then "..", each
\* exactly once.
C15_ReadDirResumes ==
    [][(/\ last'.op = "fd_read_dir"
        /\ last'.errno = ESUCCESS
        /\ last'.fd \in DOMAIN fds)
          => LET h == fds[last'.fd]
                 cookie == (CHOOSE a \in last'.flags : TRUE)[2]
                 size == (CHOOSE a \in last'.flags : TRUE)[1]
                 listing == last'.arg[1]
             IN /\ IF cookie.hi = 0
                   THEN ResumesAt(last'.out, info'[h].dirEntries, cookie.lo, size)
                   ELSE last'.out = <<>>
                /\ cookie # Small(0) => info'[h].dirEntries = info[h].dirEntries
                /\ cookie = Small(0)
                      => info'[h].dirEntries = listing \o << <<".">>, <<".", ".">> >>]_vars

(***************************************************************************)
(* Properties of poll_one_off (under SpecPoll).                            *)
(***************************************************************************)
\* The subscriptions of the poll_one_off call o.
SubscriptionsOf(o) == CHOOSE s \in o.flags : TRUE

\* Every subscription of s is a relative clock subscription on Monotonic.
OnlyTimers(s) ==
    /\ Len(s) > 0
    /\ \A i \in 1 .. Len(s) :
          s[i].EventType = "ClockEvent" /\ s[i].ID = "Monotonic" /\ ~s[i].Abstime

\* The smallest duration the subscriptions of s ask for.
SmallestTimeout(s) ==
    CHOOSE t \in {s[i].Timeout : i \in 1 .. Len(s)} :
        \A i \in 1 .. Len(s) : ~Less(s[i].Timeout, t)

\* C16: poll_one_off with only relative Monotonic clock subscriptions, the
\* smallest of duration T, sleeps for at least T and appends no event; it
\* returns ESUCCESS when the timer fires, and the errno makeErrno gives
\* ctx.Err() when the context is done first.
C16_TimersSleep ==
    (last.op = "poll_one_off" /\ OnlyTimers(SubscriptionsOf(last)))
        => /\ Len(last.sys) = 1
           /\ last.sys[1].call = "sleep"
           /\ \A d \in last.sys[1].arg : ~Less(d, SmallestTimeout(SubscriptionsOf(last)))
           /\ Len(last.host) = 1
           /\ last.errno = makeErrno(last.host[1])
           /\ last.out = last.arg

\* C17: poll_one_off does not panic when the count the host poll returns is
\* the number of polled descriptors with revents set, and what it returns
\* begins with the event list the caller supplied.
C17_NoPanic ==
    last.op = "poll_one_off"
        => /\ last.errno # "panic"
           /\ Len(last.out) >= Len(last.arg)
           /\ SubSeq(last.out, 1, Len(last.arg)) = last.arg

\* C18: poll_one_off with an empty subscription list returns EINVAL,
\* appends no event, makes no host call and changes nothing.
C18_EmptySubscriptions ==
    [][(last'.op = "poll_one_off" /\ SubscriptionsOf(last') = <<>>)
          => /\ last'.errno = EINVAL
             /\ last'.out = last'.arg
             /\ last'.sys = <<>>
             /\ UNCHANGED <<fds, preopens, info, closed, openfds>>]_vars

\* poll_one_off was called without subscriptions and with an event list
\* that held an event, while a descriptor was live.
C18_Witness ==
    /\ last.op = "poll_one_off" /\ last.flags = {<<>>}
    /\ last.errno = EINVAL
    /\ last.arg = <<OldEvent>> /\ last.out = <<OldEvent>>
    /\ fds # <<>>

(***************************************************************************)
(* Properties of the flag arguments (under SpecFlags).                     *)
(***************************************************************************)
\* C19: sock_shutdown on a live socket that holds SockShutdownRight calls
\* the host with SHUT_RDWR if both ShutdownRD and ShutdownWR are set, with
\* SHUT_RD if only ShutdownRD is, with SHUT_WR if only ShutdownWR is; with
\* neither it returns EINVAL and makes no host call.
C19_ShutdownHow ==
    (/\ last.op = "sock_shutdown"
     /\ last.fd \in DOMAIN fds
     /\ info[fds[last.fd]].stat.FileType \in {"SocketStream", "SocketDGram"}
     /\ SockShutdownRight \subseteq info[fds[last.fd]].stat.RightsBase)
        => LET how == IF {"ShutdownRD", "ShutdownWR"} \subseteq last.flags THEN "SHUT_RDWR"
                      ELSE IF "ShutdownRD" \in last.flags THEN "SHUT_RD"
                      ELSE IF "ShutdownWR" \in last.flags THEN "SHUT_WR"
                      ELSE "none"
           IN IF how = "none"
              THEN last.errno = EINVAL /\ last.sys = <<>>
              ELSE /\ last.sys = <<CallArg("shutdown", info[fds[last.fd]].fd, {how})>>
                   /\ last.errno # EINVAL

\* A shutdown of the read side alone reached the host as SHUT_RD.
C19_Witness ==
    /\ last.op = "sock_shutdown" /\ last.flags = {"ShutdownRD"}
    /\ last.errno = ESUCCESS
    /\ last.fd \in DOMAIN fds
    /\ last.sys = <<CallArg("shutdown", info[fds[last.fd]].fd, {"SHUT_RD"})>>

\* C20: fd_stat_set_flags on a live descriptor that holds
\* FDStatSetFlagsRight, with flags that differ from the entry's in at least
\* one of Sync, DSync, RSync, returns ENOSYS, makes no host call and leaves
\* the entry's flags as they were.
C20_SyncChangeRefused ==
    [][(/\ last'.op = "fd_stat_set_flags"
        /\ last'.fd \in DOMAIN fds
        /\ FDStatSetFlagsRight \subseteq info[fds[last'.fd]].stat.RightsBase
        /\ Xor(last'.flags, info[fds[last'.fd]].stat.Flags)
              \cap {"Sync", "DSync", "RSync"} # {})
          => /\ last'.errno = ENOSYS
             /\ last'.sys = <<>>
             /\ info'[fds[last'.fd]].stat.Flags = info[fds[last'.fd]].stat.Flags]_vars

(***************************************************************************)
(* Properties of fd_seek and fd_tell (under SpecSeek).                     *)
(***************************************************************************)
\* C21: FDSeekRight implies FDTellRight, and FDTellRight covers a seek
\* that leaves the offset where it is: fd_tell is not refused for want of
\* rights on a live entry whose rights_base has FDSeekRight, and fd_seek
\* with delta 0 and whence SeekCurrent is not refused for want of rights on
\* a live entry whose rights_base has FDTellRight.
C21_SeekImpliesTell ==
    /\ (/\ last.op = "fd_tell"
        /\ last.fd \in DOMAIN fds
        /\ FDSeekRight \subseteq info[fds[last.fd]].stat.RightsBase)
          => last.errno # ENOTCAPABLE
    /\ (/\ last.op = "fd_seek"
        /\ last.flags = {<<0, 1>>}
        /\ last.fd \in DOMAIN fds
        /\ FDTellRight \subseteq info[fds[last.fd]].stat.RightsBase)
          => last.errno # ENOTCAPABLE

(***************************************************************************)
(* Properties of sock_accept (under SpecOps).                              *)
(***************************************************************************)
\* C22: sock_accept(fd, flags) on a live socket that holds SockAcceptRight.
\* With a flag other than NonBlock it returns EINVAL without a host call
\* and the table is as before.  When it succeeds, the table has one more
\* slot, the lowest that was free, and the entry there has file_type
\* SocketStream, the flags given and rights_base = rights_inheriting = the
\* listening socket's rights_inheriting.  When the host accept succeeds
\* and setting the non-blocking mode fails, the accepted handle is closed
\* and the table is as before.
C22_SockAccept ==
    [][(/\ last'.op = "sock_accept"
        /\ last'.fd \in DOMAIN fds
        /\ info[fds[last'.fd]].stat.FileType \in {"SocketStream", "SocketDGram"}
        /\ SockAcceptRight \subseteq info[fds[last'.fd]].stat.RightsBase)
          => LET parent == info[fds[last'.fd]]
                 free == (0 .. Cardinality(DOMAIN fds)) \ DOMAIN fds
                 lowest == CHOOSE k \in free : \A j \in free : k <= j
             IN IF (last'.flags \ {"NonBlock"}) # {}
                THEN last'.errno = EINVAL /\ last'.sys = <<>> /\ fds' = fds /\ info' = info
                ELSE IF last'.errno = ESUCCESS
                THEN /\ last'.ret = lowest
                     /\ DOMAIN fds' = DOMAIN fds \cup {lowest}
                     /\ \A k \in DOMAIN fds : fds'[k] = fds[k] /\ info'[fds'[k]] = info[fds[k]]
                     /\ fds'[lowest] \notin Refs(fds)
                     /\ info'[fds'[lowest]].stat =
                           [FileType |-> "SocketStream", Flags |-> last'.flags,
                            RightsBase |-> parent.stat.RightsInheriting,
                            RightsInheriting |-> parent.stat.RightsInheriting]
                     /\ last'.sys = <<Call("accept", parent.fd),
                                      Call("setnonblock", info'[fds'[lowest]].fd)>>
                ELSE /\ fds' = fds /\ info' = info
                     /\ last'.sys # <<>> /\ last'.sys[1] = Call("accept", parent.fd)
                     /\ Len(last'.sys) > 1
                           => /\ Len(last'.sys) = 3
                              /\ last'.sys[2].call = "setnonblock"
                              /\ last'.sys[3] = Call("close", last'.sys[2].fd)
                              /\ last'.sys[2].fd
                                    \notin {info[f].fd : f \in Refs(fds)}]_vars

\* A non-blocking accept on a socket whose rights_base the guest had
\* narrowed has made an entry with the socket's rights_inheriting.
C22_Witness ==
    /\ last.op = "sock_accept" /\ last.errno = ESUCCESS
    /\ last.flags = {"NonBlock"}
    /\ last.fd \in DOMAIN fds /\ last.ret \in DOMAIN fds
    /\ info[fds[last.fd]].stat.RightsBase # info[fds[last.fd]].stat.RightsInheriting
    /\ info[fds[last.ret]].stat.RightsBase = info[fds[last.fd]].stat.RightsInheriting
    /\ info[fds[last.ret]].stat.FileType = "SocketStream"

(***************************************************************************)
(* Properties of the pre-open set (under SpecPreopen).                     *)
(***************************************************************************)
\* C23: fd_prestat_get and fd_prestat_dir_name return EBADF for a number
\* that is not in the pre-open set, live or not, ENOTDIR for a pre-open
\* whose file_type is not Directory, and otherwise succeed with the length
\* of, respectively the value of, the path of the entry at that number.
\* That path is the one given at registration: Preopen stores it, and as
\* long as the number stays in the pre-open set the entry there and its
\* path stay the same.  fd_close of a pre-open takes its number out of the
\* set, so that both operations return EBADF for it afterwards.
C23_PreStat ==
    [][/\ last'.op \in {"fd_prestat_get", "fd_prestat_dir_name"}
          => IF last'.fd \notin preopens THEN last'.errno = EBADF
             ELSE /\ last'.fd \in DOMAIN fds
                  /\ IF info[fds[last'.fd]].stat.FileType # "Directory"
                     THEN last'.errno = ENOTDIR
                     ELSE /\ last'.errno = ESUCCESS
                          /\ last'.op = "fd_prestat_get"
                                => last'.ret = Len(info[fds[last'.fd]].path)
                          /\ last'.op = "fd_prestat_dir_name"
                                => last'.path = info[fds[last'.fd]].path
       /\ last'.op = "preopen"
          => /\ last'.ret \in preopens' \ DOMAIN fds
             /\ info'[fds'[last'.ret]].path = last'.path
       /\ \A k \in preopens \cap preopens' :
             \/ last'.op = "preopen" /\ last'.ret = k
             \/ /\ k \in DOMAIN fds /\ k \in DOMAIN fds'
                /\ fds'[k] = fds[k]
                /\ info'[fds'[k]].path = info[fds[k]].path
       /\ (last'.op = "fd_close" /\ last'.fd \in preopens)
          => last'.fd \notin preopens']_vars

\* fd_prestat_get has returned EBADF for a live directory that path_open
\* made and that is not a pre-open.
C23_Witness ==
    /\ last.op = "fd_prestat_get" /\ last.errno = EBADF
    /\ last.fd \in DOMAIN fds
    /\ last.fd \notin preopens
    /\ info[fds[last.fd]].stat.FileType = "Directory"

\* C30: the pre-open set holds live slots only, and a slot is in it
\* exactly when the entry at that slot was registered through Preopen: a
\* slot enters the set when Preopen puts a new entry there, and it stays
\* in the set exactly as long as that same entry stays at that slot.  A
\* slot that fd_close freed and path_open or sock_accept issued again is
\* not in the set.
C30_PreopenSet ==
    [][/\ preopens' \subseteq DOMAIN fds'
       /\ last'.op = "preopen"
          => last'.ret \notin DOMAIN fds /\ fds'[last'.ret] \notin Refs(fds)
       /\ \A k \in Slots :
             k \in preopens'
                <=> \/ last'.op = "preopen" /\ last'.ret = k
                    \/ /\ k \in preopens
                       /\ k \in DOMAIN fds /\ k \in DOMAIN fds'
                       /\ fds'[k] = fds[k]]_vars

\* path_open through the pre-open at slot 1 has been issued slot 0, which
\* is free only after the pre-open first registered there was closed; the
\* new entry is not a pre-open.
C30_Witness ==
    /\ last.op = "path_open" /\ last.errno = ESUCCESS
    /\ last.fd = 1 /\ last.ret = 0
    /\ 1 \in preopens
    /\ 0 \in DOMAIN fds /\ 0 \notin preopens

(***************************************************************************)
(* Properties of FDSeekRight on opened entries (under SpecSeek).           *)
(***************************************************************************)
\* C24 (as the code has it): an entry that path_open creates through an
\* entry whose file_type is Directory lacks FDSeekRight in its rights_base
\* when it is opened with OpenDirectory; opened without OpenDirectory it
\* holds FDSeekRight exactly when FDSeekRight was requested.
C24_DirectoryOpenDropsSeek ==
    [][(/\ last'.op = "path_open"
        /\ last'.errno = ESUCCESS
        /\ last'.fd \in DOMAIN fds
        /\ info[fds[last'.fd]].stat.FileType = "Directory")
          => LET new == info'[fds'[last'.ret]] IN
             FDSeekRight \subseteq new.stat.RightsBase
                <=> /\ FDSeekRight \subseteq last'.rb
                    /\ "OpenDirectory" \notin last'.oflags]_vars

\* A file opened through a directory with FDSeekRight requested holds it.
C24_Witness ==
    /\ last.op = "path_open" /\ last.errno = ESUCCESS
    /\ last.oflags = {}
    /\ FDSeekRight \subseteq last.rb
    /\ last.fd \in DOMAIN fds /\ last.ret \in DOMAIN fds /\ last.ret # last.fd
    /\ info[fds[last.fd]].stat.FileType = "Directory"
    /\ FDSeekRight \subseteq info[fds[last.ret]].stat.RightsBase

\* C24 as stated: every entry that path_open creates through an entry
\* whose file_type is Directory lacks FDSeekRight in its rights_base.
C24_AsStated ==
    [][(/\ last'.op = "path_open"
        /\ last'.errno = ESUCCESS
        /\ last'.fd \in DOMAIN fds
        /\ info[fds[last'.fd]].stat.FileType = "Directory")
          => ~(FDSeekRight \subseteq info'[fds'[last'.ret]].stat.RightsBase)]_vars

\* C25: an entry that path_open creates with OpenDirectory has file_type
\* Directory and no FDSeekRight in its rights_base, whatever was requested
\* and whatever the parent may pass on; one created without OpenDirectory
\* has file_type RegularFile.  No later step gives an entry FDSeekRight or
\* another file_type.
C25_OpenDirectoryEntry ==
    [][/\ (last'.op = "path_open" /\ last'.errno = ESUCCESS)
          => LET new == info'[fds'[last'.ret]] IN
             /\ fds'[last'.ret] \notin DOMAIN info
             /\ IF "OpenDirectory" \in last'.oflags
                THEN /\ new.stat.FileType = "Directory"
                     /\ ~(FDSeekRight \subseteq new.stat.RightsBase)
                ELSE new.stat.FileType = "RegularFile"
       /\ \A h \in DOMAIN info \cap DOMAIN info' :
             /\ info'[h].stat.FileType = info[h].stat.FileType
             /\ FDSeekRight \subseteq info'[h].stat.RightsBase
                   => FDSeekRight \subseteq info[h].stat.RightsBase]_vars

\* A directory was opened with FDSeekRight requested through a parent
\* whose rights_inheriting has FDSeekRight, and the guest has then asked
\* fd_stat_set_rights for FDSeekRight on it, in vain.
C25_Witness ==
    /\ last.op = "fd_stat_set_rights" /\ last.errno = ENOTCAPABLE
    /\ FDSeekRight \subseteq last.rb
    /\ last.fd \in DOMAIN fds /\ last.fd \notin preopens
    /\ info[fds[last.fd]].stat.FileType = "Directory"
    /\ ~(FDSeekRight \subseteq info[fds[last.fd]].stat.RightsBase)
    /\ FDSeekRight \subseteq info[fds[last.fd]].stat.RightsInheriting

(***************************************************************************)
(* Properties of the subscriptions of poll_one_off (under SpecPoll).       *)
(***************************************************************************)
\* What is wrong with subscription s taken alone: EBADF for an FD
\* subscription on a number that is not live, ENOTCAPABLE for one on an
\* entry without PollFDReadWriteRight, ENOSYS for a clock subscription
\* that is not Monotonic or has Abstime, and ESUCCESS otherwise.
SubscriptionErrno(s) ==
    IF s.EventType \in {"FDReadEvent", "FDWriteEvent"}
    THEN IF s.FD \notin DOMAIN fds THEN EBADF
         ELSE IF ~(PollFDReadWriteRight \subseteq info[fds[s.FD]].stat.RightsBase)
              THEN ENOTCAPABLE
         ELSE ESUCCESS
    ELSE IF s.EventType = "ClockEvent" /\ (s.ID # "Monotonic" \/ s.Abstime) THEN ENOSYS
    ELSE ESUCCESS

\* C26: when some subscription of poll_one_off is wrong in that way, the
\* call returns the errno of the first such subscription in list order,
\* makes no host poll and no sleep and returns the event list as it was
\* given, whatever the other subscriptions are.
C26_FirstOffenderAborts ==
    (last.op = "poll_one_off")
        => LET s == SubscriptionsOf(last)
               bad == {i \in 1 .. Len(s) : SubscriptionErrno(s[i]) # ESUCCESS}
           IN bad # {}
                 => LET first == CHOOSE i \in bad : \A j \in bad : i <= j IN
                    /\ last.errno = SubscriptionErrno(s[first])
                    /\ last.sys = <<>>
                    /\ last.out = last.arg

\* A call whose first subscription is sound and whose second names a
\* number that is not live has returned EBADF.
C26_Witness ==
    /\ last.op = "poll_one_off" /\ last.errno = EBADF
    /\ Len(SubscriptionsOf(last)) = 2
    /\ SubscriptionsOf(last)[1].EventType = "FDReadEvent"
    /\ SubscriptionErrno(SubscriptionsOf(last)[1]) = ESUCCESS
    /\ SubscriptionErrno(SubscriptionsOf(last)[2]) = EBADF

(***************************************************************************)
(* Properties of the events of poll_one_off (under SpecEvents).            *)
(***************************************************************************)
\* The event the claim describes for FD subscription s and poll result r.
EventOf(s, r) ==
    [UserData |-> s.UserData,
     EventType |-> s.EventType,
     NBytes |-> IF (s.EventType = "FDReadEvent" /\ "POLLIN" \in r)
                   \/ (s.EventType = "FDWriteEvent" /\ "POLLOUT" \in r)
                THEN 1 ELSE 0,
     Errno |-> IF "POLLERR" \in r THEN "ECANCELED" ELSE ESUCCESS,
     Flags |-> IF "POLLHUP" \in r THEN {"Hangup"} ELSE {}]

\* C27: when poll_one_off has an FD subscription and the host poll
\* succeeds, the call succeeds and returns the list it was given followed
\* by one event for each FD subscription whose poll result is not empty,
\* in subscription order, and nothing else; each event is the one EventOf
\* describes.
C27_EventsAppended ==
    (/\ last.op = "poll_one_off"
     /\ last.sys # <<>> /\ last.sys[1].call = "poll"
     /\ last.errno # makeErrno("EINTR"))
        => LET f == SelectSeq(SubscriptionsOf(last), LAMBDA x : x.EventType # "ClockEvent")
               ready == {j \in 1 .. Len(f) : last.host[j] # {}}
               new == SubSeq(last.out, Len(last.arg) + 1, Len(last.out))
           IN /\ last.errno = ESUCCESS
              /\ Len(last.host) = Len(f)
              /\ SubSeq(last.out, 1, Len(last.arg)) = last.arg
              /\ Len(new) = Cardinality(ready)
              /\ \A n \in 1 .. Len(new) :
                    LET j == CHOOSE k \in ready : Cardinality({i \in ready : i <= k}) = n
                    IN new[n] = EventOf(f[j], last.host[j])

(***************************************************************************)
(* Properties of the timeout of poll_one_off (under SpecPoll).             *)
(***************************************************************************)
\* C28: when no subscription is refused, the timeout poll_one_off uses is
\* the smallest Timeout of its clock subscriptions, taken as the unsigned
\* values they are, in whatever order they come: with an FD subscription
\* the host poll is called with that timeout in milliseconds, or with -1
\* when there is no clock subscription; without one the call sleeps for it.
C28_TimeoutIsMinimum ==
    (/\ last.op = "poll_one_off"
     /\ SubscriptionsOf(last) # <<>>
     /\ \A i \in 1 .. Len(SubscriptionsOf(last)) :
           SubscriptionErrno(SubscriptionsOf(last)[i]) = ESUCCESS)
        => LET s == SubscriptionsOf(last)
               timeouts == {s[i].Timeout : i \in {k \in 1 .. Len(s) : s[k].EventType = "ClockEvent"}}
               minimum == CHOOSE t \in timeouts : \A u \in timeouts : ~Less(u, t)
               hasFD == \E i \in 1 .. Len(s) : s[i].EventType # "ClockEvent"
           IN /\ Len(last.sys) = 1
              /\ IF hasFD
                 THEN /\ last.sys[1].call = "poll"
                      /\ last.sys[1].arg =
                            {IF timeouts = {} THEN Num(0, 0 - 1)
                             ELSE Num(minimum.hi,
                                      (minimum.hi * 775808 + minimum.lo) \div 1000000)}
                 ELSE /\ last.sys[1].call = "sleep"
                      /\ last.sys[1].arg = {minimum}

(***************************************************************************)
(* Properties of the fd_read_dir buffer (under SpecDir).                   *)
(***************************************************************************)
\* The bytes counted for the m cache entries that follow index cookie.
RECURSIVE CacheBytes(_, _, _)
CacheBytes(cache, cookie, m) ==
    IF m = 0 THEN 0
    ELSE CacheBytes(cache, cookie, m - 1) + SizeOfDirEntry + Len(cache[cookie + m])

\* C29: fd_read_dir(fd, buf_limit, cookie) on a live entry that holds
\* FDReadDirRight, when neither the host listing nor the stat of an entry
\* in the loop failed: with cookie above
\* MaxInt it returns EINVAL and no entry; otherwise it succeeds and
\* returns the cache entries from index cookie on, the one from index i
\* with next = i + 1, stopping at the first point where the cache is
\* exhausted or the bytes counted (the entry size plus the name length,
\* per entry) are at least buf_limit; a cookie at or past the cache length
\* gives no entry.
C29_ReadDirBuffer ==
    (/\ last.op = "fd_read_dir"
     /\ last.fd \in DOMAIN fds
     /\ FDReadDirRight \subseteq info[fds[last.fd]].stat.RightsBase
     /\ last.errno # makeErrno("ENOENT"))
        => LET cache == info[fds[last.fd]].dirEntries
               size == (CHOOSE a \in last.flags : TRUE)[1]
               given == (CHOOSE a \in last.flags : TRUE)[2]
               cookie == given.lo
               Stop(m) == \/ cookie + m >= Len(cache)
                          \/ CacheBytes(cache, cookie, m) >= size
           IN IF Less(MaxInt, given) THEN last.errno = EINVAL /\ last.out = <<>>
              ELSE IF given.hi # 0 THEN last.errno = ESUCCESS /\ last.out = <<>>
              ELSE /\ last.errno = ESUCCESS
                   /\ Stop(Len(last.out))
                   /\ \A m \in 0 .. Len(last.out) - 1 : ~Stop(m)
                   /\ \A i \in 1 .. Len(last.out) :
                         last.out[i] = [Name |-> cache[cookie + i],
                                        NameLength |-> Len(cache[cookie + i]),
                                        Next |-> cookie + i]
                   /\ cookie >= Len(cache) => last.out = <<>>

\* A call with cookie 1 and room for one entry on the cache a, b, ., ..
\* has returned b alone, with next = 2.
C29_Witness ==
    /\ last.op = "fd_read_dir" /\ last.errno = ESUCCESS
    /\ last.flags = {<<SizeOfDirEntry + 1, Small(1)>>}
    /\ last.fd \in DOMAIN fds
    /\ Len(info[fds[last.fd]].dirEntries) = 4
    /\ Len(last.out) = 1
    /\ last.out[1].Name = <<"b">> /\ last.out[1].Next = 2

(***************************************************************************)
(* Properties of the host handles of live entries (under Spec).            *)
(***************************************************************************)
\* C31: no live slot refers to an entry whose host handle the provider
\* has closed, and no operation makes a host call on a handle that is not
\* open (the close of a handle, and the calls on a handle that sock_accept
\* has just accepted and closes again, leave it closed and are not meant).
C31_NoClosedHandle ==
    /\ \A k \in DOMAIN fds : ~closed[fds[k]]
    /\ \A i \in 1 .. Len(last.sys) :
          (last.sys[i].call \notin {"close", "setnonblock"} /\ last.sys[i].fd # NoFD)
             => last.sys[i].fd \in openfds

(***************************************************************************)
(* Properties of failing operations (under Spec).                          *)
(***************************************************************************)
\* C32: an operation that returns an error without having made a host call
\* leaves the descriptor table, the pre-open set and the FDStat of every
\* entry as they were; fd_close that reaches the host close removes the
\* slot from both tables whatever the host close returns.
C32_FailureFrame ==
    [][/\ (last'.errno # ESUCCESS /\ last'.sys = <<>>)
          => /\ fds' = fds
             /\ preopens' = preopens
             /\ \A h \in DOMAIN info :
                   h \in DOMAIN info' /\ info'[h].stat = info[h].stat
       /\ (last'.op = "fd_close" /\ last'.sys # <<>>)
          => /\ last'.fd \notin DOMAIN fds'
             /\ last'.fd \notin preopens']_vars

====
